---- MODULE Spec2Model ----
(***************************************************************************)
(* Userdata handles, cells and callback dispatch of mlua                   *)
(* (src/src/userdata.rs, src/src/userdata_impl.rs).                        *)
(*                                                                         *)
(* Two runtime instances: instance 1 (thread 1) owns the objects X and Y,  *)
(* instance 2 (thread 2) owns Z.  All objects of a run are created with    *)
(* the same ownership kind; wrapper kinds share their payload             *)
(* (Rc within a thread, Arc across threads).                               *)
(***************************************************************************)
EXTENDS Integers, Sequences, FiniteSets, TLC

\* ------------------------------------------------------------------ bounds
MaxRefs == 2
MaxDepth == 2
MaxVal == 1
MaxDecl == 2

\* ------------------------------------------------------------ the universe
Threads == {1, 2}
Objects == {"X", "Y", "Z"}
HostObjects == {"X"}
Payloads == {1, 2, 3}
NoObj == "none"

TypeT == "T"
TypeU == "U"
RcRefCell == "Rc<RefCell<T>>"
ArcMutex == "Arc<Mutex<T>>"
ArcRwLock == "Arc<RwLock<T>>"
TypeIds == {TypeT, TypeU, RcRefCell, ArcMutex, ArcRwLock}
DestructedUserdata == "DestructedUserdata"

Callbacks == {"get", "add", "set", "fmut"}
MutCallbacks == {"add", "set", "fmut"}

LuaOf(o) == IF o = "Z" THEN 2 ELSE 1

VARIABLES
    kind,     \* the ownership kind the objects were created with
    futures,  \* futures[o]: the clone held by the pending future of an async method on o
    meta,     \* what T declares for its metatable, and instance 1's metatable for kind
    registry, \* the metatables built per runtime instance and type, and each object's
    ty,       \* ty[o]: type identity registered for o's metatable
    attached, \* attached[o]: o's cell (and payload) is still inside the object
    cell,     \* cell[o]: borrow flag of o's UserDataCell (RefCell)
    inner,    \* inner[p]: flag of the wrapper's RefCell / Mutex / RwLock
    val,      \* val[p]: the payload's integer field
    applied,  \* applied[p]: number of completed `add` mutations (history)
    refs,     \* refs[o]: Ref<T> guards handed to the host and not yet dropped
    muts,     \* muts[o]: RefMut<T> guards handed to the host and not yet dropped
    stack,    \* stack[t]: the activations of host closures, innermost last
    busy,     \* busy[t][cb]: the RefCell around a mutably captured closure is borrowed
    top,      \* top[t]: stack top of the runtime instance of thread t
    uv,       \* uv[o]: the user values attached to o
    last      \* the last completed call and its result

vars == <<kind, futures, meta, registry, ty, attached, cell, inner, val, applied, refs, muts, stack, busy, top, uv, last>>

\* The payload an object created with kind k refers to.
PayloadOf(k, o) ==
    IF k \in {ArcMutex, ArcRwLock} THEN 1
    ELSE IF k = RcRefCell THEN (IF o = "Z" THEN 3 ELSE 1)
    ELSE (IF o = "X" THEN 1 ELSE IF o = "Y" THEN 2 ELSE 3)

pay(o) == PayloadOf(kind, o)

\* Only an Arc-wrapped payload can be handed to a second thread: instance 2
\* holds an object (Z) exactly when the objects are Arc<Mutex<T>> or
\* Arc<RwLock<T>>.
ObjectsOf(t) ==
    IF t = 1 THEN {"X", "Y"}
    ELSE IF kind \in {ArcMutex, ArcRwLock} THEN {"Z"} ELSE {}

\* A completed call: what was called on which object, its result and, when
\* a method returned one, the value it returned.
NoValue == -1
Result(op, o, r) == [op |-> op, obj |-> o, res |-> r, value |-> NoValue]

\* User values: the slots 1 .. USER_VALUE_MAXSLOT - 1 are stored inline, the
\* slot USER_VALUE_MAXSLOT holds the overflow table once it is created
\* (hasTable).
USER_VALUE_MAXSLOT == 8
U16_MAX == 65535
Nil == "nil"
Values == {Nil, "a"}
Indices == {0, 1, 7, 8, 65535, 65536}
Names == {"1"}
IntKey(n) == [int |-> TRUE, n |-> n, s |-> ""]
StrKey(name) == [int |-> FALSE, n |-> 0, s |-> name]
TableKeys ==
    {IntKey(n - USER_VALUE_MAXSLOT + 1) : n \in {i \in Indices : i >= USER_VALUE_MAXSLOT}}
        \cup {StrKey(name) : name \in Names}
EmptyTable == [k \in TableKeys |-> Nil]
NoUserValues ==
    [inline |-> [i \in 1 .. (USER_VALUE_MAXSLOT - 1) |-> Nil],
     hasTable |-> FALSE, tab |-> EmptyTable]

\* Meta-method names, one character per element.
GC == <<"_", "_", "g", "c">>
METATABLE == <<"_", "_", "m", "e", "t", "a", "t", "a", "b", "l", "e">>
MLUA_PREFIX == <<"_", "_", "m", "l", "u", "a">>
INDEX == <<"_", "_", "i", "n", "d", "e", "x">>
EQ == <<"_", "_", "e", "q">>
NEWINDEX == <<"_", "_", "n", "e", "w", "i", "n", "d", "e", "x">>
ADD == <<"_", "_", "a", "d", "d">>

\* The names T registers meta-methods and meta-fields under.
RegNames == {GC, METATABLE, INDEX, EQ}

\* The keys a metatable view is asked for: the names above, the reserved
\* prefix, every prefix of the reserved ones, each of those with one character
\* put in front or behind, and upper-case spellings.
Alphabet == {"_", "a"}
Seeds == {GC, METATABLE, MLUA_PREFIX}
Prefixes(s) == {SubSeq(s, 1, k) : k \in 0 .. Len(s)}
Keys ==
    UNION {Prefixes(s) : s \in Seeds}
        \cup {s \o <<c>> : s \in Seeds, c \in Alphabet}
        \cup {<<c>> \o s : s \in Seeds, c \in Alphabet}
        \cup {INDEX, EQ, <<"_", "_", "G", "C">>, <<"_", "_", "M", "L", "U", "A">>}

\* The keys and values the metatable view is read and written with.
ViewKeys == {GC, METATABLE, MLUA_PREFIX \o <<"_">>, INDEX, NEWINDEX, EQ, ADD}
SetValues == {Nil, "function"}

\* StaticUserDataMethods / StaticUserDataFields of T before anything is
\* declared, and no metatable built.
NoDeclarations ==
    [methods |-> << >>, async_methods |-> << >>,
     meta_methods |-> << >>, async_meta_methods |-> << >>,
     field_getters |-> << >>, field_setters |-> << >>, meta_fields |-> << >>,
     built |-> FALSE, table |-> {},
     pairs |-> [live |-> FALSE, rest |-> << >>, item |-> << >>]]

\* The names T registers regular methods and fields under, and the keys a
\* script indexes an object with.
FieldNames == {"a", "b"}

\* The metatables after the objects X, Y (instance 1) and Z (instance 2) were
\* created with type k: one metatable built per instance; tables[i][id] is 0
\* while instance i has not used type id.
FirstUse(k) ==
    [tables |-> [i \in Threads |-> [id \in TypeIds |-> IF id = k THEN i ELSE 0]],
     builds |-> [i \in Threads |-> [id \in TypeIds |-> IF id = k THEN 1 ELSE 0]],
     mt |-> [o \in Objects |-> LuaOf(o)],
     next |-> 3]

Init ==
    /\ kind \in TypeIds
    /\ meta = NoDeclarations
    /\ registry = FirstUse(kind)
    /\ ty = [o \in Objects |-> kind]
    /\ attached = [o \in Objects |-> TRUE]
    /\ cell = [o \in Objects |-> 0]
    /\ inner = [p \in Payloads |-> 0]
    /\ val = [p \in Payloads |-> 0]
    /\ applied = [p \in Payloads |-> 0]
    /\ refs = [o \in Objects |-> 0]
    /\ muts = [o \in Objects |-> 0]
    /\ stack = [t \in Threads |-> << >>]
    /\ busy = [t \in Threads |-> [cb \in MutCallbacks |-> FALSE]]
    /\ top = [t \in Threads |-> 0]
    /\ uv = [o \in Objects |-> NoUserValues]
    /\ futures = [o \in Objects |-> NoValue]
    /\ last = Result("init", NoObj, "none")

\* ------------------------------------------------------- cells and locks
\* A flag is 0 when free, n > 0 with n shared borrows, -1 when exclusive.
\* The flag of a std::sync lock poisoned by a panic is -2: every try fails.

try_borrow(flag) ==
    IF flag >= 0 THEN [ok |-> TRUE, flag |-> flag + 1]
    ELSE [ok |-> FALSE, flag |-> flag]

try_borrow_mut_ignoring_readers(flag) ==
    IF flag >= 0 THEN [ok |-> TRUE, flag |-> -1]
    ELSE [ok |-> FALSE, flag |-> flag]

try_borrow_mut(flag) ==
    IF flag = 0 THEN [ok |-> TRUE, flag |-> -1]
    ELSE [ok |-> FALSE, flag |-> flag]

\* Dropping a Ref / RefMut (or a lock guard).
drop_ref_leaked(flag) == flag
drop_ref(flag) == flag - 1
drop_mut(flag) == 0

\* Mutex::try_lock, RwLock::try_read, RwLock::try_write: `returns` tells
\* whether the call comes back in the current state (a try never waits).
lock_blocking(flag) ==
    [returns |-> flag = 0, ok |-> TRUE, flag |-> -1]

try_lock_unchecked(flag) ==
    [returns |-> TRUE, ok |-> TRUE, flag |-> -1]

try_lock(flag) ==
    [returns |-> TRUE, ok |-> flag = 0, flag |-> IF flag = 0 THEN -1 ELSE flag]

try_read_exclusive(flag) ==
    [returns |-> TRUE, ok |-> flag = 0, flag |-> IF flag = 0 THEN 1 ELSE flag]

try_read(flag) ==
    [returns |-> TRUE, ok |-> flag >= 0, flag |-> IF flag >= 0 THEN flag + 1 ELSE flag]

try_write_ignoring_readers(flag) ==
    [returns |-> TRUE, ok |-> flag >= 0, flag |-> IF flag >= 0 THEN 0 - 1 ELSE flag]

try_write(flag) ==
    [returns |-> TRUE, ok |-> flag = 0, flag |-> IF flag = 0 THEN -1 ELSE flag]

get_userdata_ref(flag) == try_borrow(flag)
get_userdata_mut(flag) == try_borrow_mut(flag)

\* ------------------------------------------------------- stack discipline
StackGuard_new(t) == top[t]
StackGuard_drop(saved, cur) == saved

\* Lua::push_userdata_ref: pushes the reference, then resolves the type
\* identity from the metatable; a destructed object yields an error, either
\* the destructed-state error or a type mismatch.  The set of the outcomes.
DestructedErrors == {"UserDataDestructed", "UserDataTypeMismatch"}
push_userdata_ref(o) ==
    IF ty[o] = DestructedUserdata
    THEN {[err |-> e, type_id |-> "none"] : e \in DestructedErrors}
    ELSE {[err |-> "", type_id |-> ty[o]]}

\* ------------------------------------------------------------ AnyUserData
others_api == <<kind, futures, meta, registry, attached, inner, val, applied, stack, busy, uv>>

\* AnyUserData::inspect: the type test every typed access starts with.
inspect_ignoring_error(p, T) ==
    IF p.err # "" \/ p.type_id = T THEN "match"
    ELSE "UserDataTypeMismatch"

inspect_through_wrappers(p, T) ==
    IF p.err # "" THEN p.err
    ELSE IF p.type_id = T THEN "match"
    ELSE IF T = TypeT /\ p.type_id \in {RcRefCell, ArcMutex, ArcRwLock} THEN "match"
    ELSE "UserDataTypeMismatch"

inspect_any_wrapper(p, T) ==
    IF p.err # "" THEN p.err
    ELSE IF p.type_id = T THEN "match"
    ELSE IF {T, p.type_id} \subseteq {RcRefCell, ArcMutex, ArcRwLock} THEN "match"
    ELSE "UserDataTypeMismatch"

inspect(p, T) ==
    IF p.err # "" THEN p.err
    ELSE IF p.type_id = T THEN "match"
    ELSE "UserDataTypeMismatch"

\* The stack top inspect leaves: one reference pushed under a guard.
inspect_top(t) == StackGuard_drop(StackGuard_new(t), top[t] + 1)

is_result(r) ==
    CASE r = "match" -> "true"
      [] r = "UserDataTypeMismatch" -> "false"
      [] OTHER -> "panic"

is(o, T, p) ==
    /\ last' = Result("is", o, is_result(inspect(p, T)))
    /\ top' = [top EXCEPT ![LuaOf(o)] = inspect_top(LuaOf(o))]
    /\ UNCHANGED <<ty, cell, refs, muts>>
    /\ UNCHANGED others_api

borrow_conflict_first(o, T, p) ==
    LET r == inspect(p, T)
        b == try_borrow(cell[o])
    IN  /\ top' = [top EXCEPT ![LuaOf(o)] = inspect_top(LuaOf(o))]
        /\ IF p.err # ""
           THEN /\ last' = Result("borrow", o, p.err)
                /\ UNCHANGED <<cell, refs>>
           ELSE IF ~b.ok
           THEN /\ last' = Result("borrow", o, "UserDataBorrowError")
                /\ UNCHANGED <<cell, refs>>
           ELSE IF r # "match"
           THEN /\ last' = Result("borrow", o, r)
                /\ UNCHANGED <<cell, refs>>
           ELSE /\ refs[o] < MaxRefs
                /\ cell' = [cell EXCEPT ![o] = b.flag]
                /\ refs' = [refs EXCEPT ![o] = @ + 1]
                /\ last' = Result("borrow", o, "Ok")
        /\ UNCHANGED <<ty, muts>>
        /\ UNCHANGED others_api

borrow(o, T, p) ==
    LET r == inspect(p, T)
        b == try_borrow(cell[o])
    IN  /\ top' = [top EXCEPT ![LuaOf(o)] = inspect_top(LuaOf(o))]
        /\ IF r # "match"
           THEN /\ last' = Result("borrow", o, r)
                /\ UNCHANGED <<cell, refs>>
           ELSE IF ~b.ok
           THEN /\ last' = Result("borrow", o, "UserDataBorrowError")
                /\ UNCHANGED <<cell, refs>>
           ELSE /\ refs[o] < MaxRefs
                /\ cell' = [cell EXCEPT ![o] = b.flag]
                /\ refs' = [refs EXCEPT ![o] = @ + 1]
                /\ last' = Result("borrow", o, "Ok")
        /\ UNCHANGED <<ty, muts>>
        /\ UNCHANGED others_api

borrow_mut_forcing(o, T, p) ==
    LET r == inspect(p, T)
        b == try_borrow_mut(cell[o])
    IN  /\ top' = [top EXCEPT ![LuaOf(o)] = inspect_top(LuaOf(o))]
        /\ IF r # "match"
           THEN /\ last' = Result("borrow_mut", o, r)
                /\ UNCHANGED <<cell, muts>>
           ELSE IF ~b.ok
           THEN /\ last' = Result("borrow_mut", o, "UserDataBorrowMutError")
                /\ cell' = [cell EXCEPT ![o] = -1]
                /\ UNCHANGED muts
           ELSE /\ cell' = [cell EXCEPT ![o] = b.flag]
                /\ muts' = [muts EXCEPT ![o] = @ + 1]
                /\ last' = Result("borrow_mut", o, "Ok")
        /\ UNCHANGED <<ty, refs>>
        /\ UNCHANGED others_api

borrow_mut(o, T, p) ==
    LET r == inspect(p, T)
        b == try_borrow_mut(cell[o])
    IN  /\ top' = [top EXCEPT ![LuaOf(o)] = inspect_top(LuaOf(o))]
        /\ IF r # "match"
           THEN /\ last' = Result("borrow_mut", o, r)
                /\ UNCHANGED <<cell, muts>>
           ELSE IF ~b.ok
           THEN /\ last' = Result("borrow_mut", o, "UserDataBorrowMutError")
                /\ UNCHANGED <<cell, muts>>
           ELSE /\ cell' = [cell EXCEPT ![o] = b.flag]
                /\ muts' = [muts EXCEPT ![o] = @ + 1]
                /\ last' = Result("borrow_mut", o, "Ok")
        /\ UNCHANGED <<ty, refs>>
        /\ UNCHANGED others_api

\* The host drops a Ref<T> it got from borrow.
drop_Ref(o) ==
    /\ refs[o] > 0
    /\ refs' = [refs EXCEPT ![o] = @ - 1]
    /\ cell' = [cell EXCEPT ![o] = drop_ref(@)]
    /\ last' = Result("drop_Ref", o, "Ok")
    /\ UNCHANGED <<ty, muts, top>>
    /\ UNCHANGED others_api

\* The host drops a RefMut<T> it got from borrow_mut.
drop_RefMut(o) ==
    /\ muts[o] > 0
    /\ muts' = [muts EXCEPT ![o] = @ - 1]
    /\ cell' = [cell EXCEPT ![o] = drop_mut(@)]
    /\ last' = Result("drop_RefMut", o, "Ok")
    /\ UNCHANGED <<ty, refs, top>>
    /\ UNCHANGED others_api

\* The host writes the payload through the RefMut<T> it holds.
RefMut_write(o) ==
    /\ muts[o] > 0
    /\ val[pay(o)] < MaxVal
    /\ val' = [val EXCEPT ![pay(o)] = @ + 1]
    /\ last' = Result("RefMut_write", o, "Ok")
    /\ UNCHANGED <<kind, futures, meta, registry, ty, attached, cell, inner, applied, refs, muts, stack, busy, top, uv>>

\* AnyUserData::take: on success take_userdata moves the cell out, pops the
\* reference and leaves the destructed metatable on the object.
take_result_unborrowed(o, T, p) ==
    IF p.err # "" THEN p.err
    ELSE IF p.type_id # T THEN "UserDataTypeMismatch"
    ELSE "Ok"

take_result(o, T, p) ==
    IF p.err # "" THEN p.err
    ELSE IF p.type_id # T THEN "UserDataTypeMismatch"
    ELSE IF ~try_borrow_mut(cell[o]).ok THEN "UserDataBorrowMutError"
    ELSE "Ok"

\* take_userdata: what becomes of the metatable of an object whose cell is
\* moved out.
take_userdata(id) == DestructedUserdata

take_clearing_user_values(o, T, p) ==
    LET r == take_result(o, T, p)
        t == LuaOf(o)
    IN  /\ last' = Result("take", o, r)
        /\ IF r = "Ok"
           THEN /\ ty' = [ty EXCEPT ![o] = take_userdata(@)]
                /\ attached' = [attached EXCEPT ![o] = FALSE]
                /\ uv' = [uv EXCEPT ![o] = NoUserValues]
                /\ top' = [top EXCEPT ![t] = StackGuard_drop(StackGuard_new(t), top[t] + 1 - 1)]
           ELSE /\ top' = [top EXCEPT ![t] = StackGuard_drop(StackGuard_new(t), top[t] + 1)]
                /\ UNCHANGED <<ty, attached, uv>>
        /\ UNCHANGED <<cell, refs, muts>>
        /\ UNCHANGED <<kind, futures, meta, registry, inner, val, applied, stack, busy>>

take(o, T, p) ==
    LET r == take_result(o, T, p)
        t == LuaOf(o)
    IN  /\ last' = Result("take", o, r)
        /\ IF r = "Ok"
           THEN /\ ty' = [ty EXCEPT ![o] = take_userdata(@)]
                /\ attached' = [attached EXCEPT ![o] = FALSE]
                /\ top' = [top EXCEPT ![t] = StackGuard_drop(StackGuard_new(t), top[t] + 1 - 1)]
           ELSE /\ top' = [top EXCEPT ![t] = StackGuard_drop(StackGuard_new(t), top[t] + 1)]
                /\ UNCHANGED <<ty, attached>>
        /\ UNCHANGED <<cell, refs, muts>>
        /\ UNCHANGED <<kind, futures, meta, registry, inner, val, applied, stack, busy, uv>>


\* ------------------------------------------------------------ user values
others_uv == <<kind, futures, meta, registry, ty, attached, cell, inner, val, applied, refs, muts, stack, busy>>

\* The stack top set_nth_user_value leaves: the bounds check comes before the
\* guard; reference and value are pushed under it; the inline path returns
\* with the reference still pushed, the table path pops both.
set_nth_user_value_top_unguarded(t, n, p) ==
    IF n < 1 \/ n > U16_MAX THEN top[t]
    ELSE IF p.err # "" THEN StackGuard_drop(StackGuard_new(t), top[t] + 1)
    ELSE IF n < USER_VALUE_MAXSLOT THEN top[t] + 2 - 1
    ELSE StackGuard_drop(StackGuard_new(t), top[t] + 2 - 2)

set_nth_user_value_top(t, n, p) ==
    IF n < 1 \/ n > U16_MAX THEN top[t]
    ELSE IF p.err # "" THEN StackGuard_drop(StackGuard_new(t), top[t] + 1)
    ELSE IF n < USER_VALUE_MAXSLOT THEN StackGuard_drop(StackGuard_new(t), top[t] + 2 - 1)
    ELSE StackGuard_drop(StackGuard_new(t), top[t] + 2 - 2)

set_nth_user_value_new_table(o, n, v, p) ==
    LET t == LuaOf(o)
        k == IntKey(n - USER_VALUE_MAXSLOT + 1)
    IN  /\ UNCHANGED others_uv
        /\ top' = [top EXCEPT ![t] = set_nth_user_value_top(t, n, p)]
        /\ IF n < 1 \/ n > U16_MAX THEN
               /\ last' = Result("set_nth_user_value", o, "RuntimeError")
               /\ UNCHANGED uv
           ELSE IF p.err # "" THEN
               /\ last' = Result("set_nth_user_value", o, p.err)
               /\ UNCHANGED uv
           ELSE IF n < USER_VALUE_MAXSLOT THEN
               /\ uv' = [uv EXCEPT ![o].inline[n] = v]
               /\ last' = Result("set_nth_user_value", o, "Ok")
           ELSE
               /\ uv' = [uv EXCEPT ![o].hasTable = TRUE,
                                ![o].tab = [EmptyTable EXCEPT ![k] = v]]
               /\ last' = Result("set_nth_user_value", o, "Ok")

set_nth_user_value_checking_borrow(o, n, v, p) ==
    LET t == LuaOf(o)
    IN  /\ UNCHANGED others_uv
        /\ top' = [top EXCEPT ![t] = set_nth_user_value_top(t, n, p)]
        /\ IF n < 1 \/ n > U16_MAX THEN
               /\ last' = Result("set_nth_user_value", o, "RuntimeError")
               /\ UNCHANGED uv
           ELSE IF p.err # "" THEN
               /\ last' = Result("set_nth_user_value", o, p.err)
               /\ UNCHANGED uv
           ELSE IF ~try_borrow_mut(cell[o]).ok THEN
               /\ last' = Result("set_nth_user_value", o, "UserDataBorrowMutError")
               /\ UNCHANGED uv
           ELSE
               /\ uv' = [uv EXCEPT ![o].inline[1] = v]
               /\ last' = Result("set_nth_user_value", o, "Ok")

set_nth_user_value(o, n, v, p) ==
    LET t == LuaOf(o)
        k == IntKey(n - USER_VALUE_MAXSLOT + 1)
        tab == IF ~uv[o].hasTable THEN EmptyTable ELSE uv[o].tab
    IN  /\ UNCHANGED others_uv
        /\ top' = [top EXCEPT ![t] = set_nth_user_value_top(t, n, p)]
        /\ IF n < 1 \/ n > U16_MAX THEN
               /\ last' = Result("set_nth_user_value", o, "RuntimeError")
               /\ UNCHANGED uv
           ELSE IF p.err # "" THEN
               /\ last' = Result("set_nth_user_value", o, p.err)
               /\ UNCHANGED uv
           ELSE IF n < USER_VALUE_MAXSLOT THEN
               /\ uv' = [uv EXCEPT ![o].inline[n] = v]
               /\ last' = Result("set_nth_user_value", o, "Ok")
           ELSE
               /\ uv' = [uv EXCEPT ![o].hasTable = TRUE, ![o].tab = [tab EXCEPT ![k] = v]]
               /\ last' = Result("set_nth_user_value", o, "Ok")

\* What get_nth_user_value reads.
nth_user_value(o, n) ==
    IF n < USER_VALUE_MAXSLOT THEN uv[o].inline[n]
    ELSE IF ~uv[o].hasTable THEN Nil
    ELSE uv[o].tab[IntKey(n - USER_VALUE_MAXSLOT + 1)]

get_nth_user_value_upto_65536(o, n, p) ==
    LET t == LuaOf(o)
        sg == StackGuard_new(t)
    IN  /\ UNCHANGED others_uv
        /\ UNCHANGED uv
        /\ IF n < 1 \/ n > U16_MAX + 1 THEN
               /\ last' = Result("get_nth_user_value", o, "RuntimeError")
               /\ UNCHANGED top
           ELSE IF p.err # "" THEN
               /\ last' = Result("get_nth_user_value", o, p.err)
               /\ top' = [top EXCEPT ![t] = StackGuard_drop(sg, top[t] + 1)]
           ELSE
               /\ last' = Result("get_nth_user_value", o, nth_user_value(o, n))
               /\ top' = [top EXCEPT ![t] = StackGuard_drop(sg, top[t] + 1)]

get_nth_user_value(o, n, p) ==
    LET t == LuaOf(o)
        sg == StackGuard_new(t)
    IN  /\ UNCHANGED others_uv
        /\ UNCHANGED uv
        /\ IF n < 1 \/ n > U16_MAX THEN
               /\ last' = Result("get_nth_user_value", o, "RuntimeError")
               /\ UNCHANGED top
           ELSE IF p.err # "" THEN
               /\ last' = Result("get_nth_user_value", o, p.err)
               /\ top' = [top EXCEPT ![t] = StackGuard_drop(sg, top[t] + 1)]
           ELSE IF n < USER_VALUE_MAXSLOT THEN
               /\ last' = Result("get_nth_user_value", o, nth_user_value(o, n))
               /\ top' = [top EXCEPT ![t] = StackGuard_drop(sg, top[t] + 2 - 1)]
           ELSE
               /\ last' = Result("get_nth_user_value", o, nth_user_value(o, n))
               /\ top' = [top EXCEPT ![t] = StackGuard_drop(sg, top[t] + 1 - 1 + 1 - 1)]

set_named_user_value_number_key(o, name, v, p) ==
    LET t == LuaOf(o)
        sg == StackGuard_new(t)
        tab == IF ~uv[o].hasTable THEN EmptyTable ELSE uv[o].tab
        k == IF name = "1" THEN IntKey(1) ELSE StrKey(name)
    IN  /\ UNCHANGED others_uv
        /\ IF p.err # "" THEN
               /\ last' = Result("set_named_user_value", o, p.err)
               /\ top' = [top EXCEPT ![t] = StackGuard_drop(sg, top[t] + 1)]
               /\ UNCHANGED uv
           ELSE
               /\ uv' = [uv EXCEPT ![o].hasTable = TRUE, ![o].tab = [tab EXCEPT ![k] = v]]
               /\ top' = [top EXCEPT ![t] = StackGuard_drop(sg, top[t] + 2 - 2)]
               /\ last' = Result("set_named_user_value", o, "Ok")

set_named_user_value(o, name, v, p) ==
    LET t == LuaOf(o)
        sg == StackGuard_new(t)
        tab == IF ~uv[o].hasTable THEN EmptyTable ELSE uv[o].tab
    IN  /\ UNCHANGED others_uv
        /\ IF p.err # "" THEN
               /\ last' = Result("set_named_user_value", o, p.err)
               /\ top' = [top EXCEPT ![t] = StackGuard_drop(sg, top[t] + 1)]
               /\ UNCHANGED uv
           ELSE
               /\ uv' = [uv EXCEPT ![o].hasTable = TRUE,
                                ![o].tab = [tab EXCEPT ![StrKey(name)] = v]]
               /\ top' = [top EXCEPT ![t] = StackGuard_drop(sg, top[t] + 2 - 2)]
               /\ last' = Result("set_named_user_value", o, "Ok")

\* What get_named_user_value reads.
named_user_value(o, name) ==
    IF ~uv[o].hasTable THEN Nil ELSE uv[o].tab[StrKey(name)]

get_named_user_value_creating_table(o, name, p) ==
    LET t == LuaOf(o)
        sg == StackGuard_new(t)
    IN  /\ UNCHANGED others_uv
        /\ IF p.err # "" THEN
               /\ last' = Result("get_named_user_value", o, p.err)
               /\ top' = [top EXCEPT ![t] = StackGuard_drop(sg, top[t] + 1)]
               /\ UNCHANGED uv
           ELSE
               /\ last' = Result("get_named_user_value", o, named_user_value(o, name))
               /\ top' = [top EXCEPT ![t] = StackGuard_drop(sg, top[t] + 1 - 1 + 1 - 1)]
               /\ uv' = [uv EXCEPT ![o].hasTable = TRUE,
                                ![o].tab = IF uv[o].hasTable THEN @ ELSE EmptyTable]

get_named_user_value(o, name, p) ==
    LET t == LuaOf(o)
        sg == StackGuard_new(t)
    IN  /\ UNCHANGED others_uv
        /\ UNCHANGED uv
        /\ IF p.err # "" THEN
               /\ last' = Result("get_named_user_value", o, p.err)
               /\ top' = [top EXCEPT ![t] = StackGuard_drop(sg, top[t] + 1)]
           ELSE
               /\ last' = Result("get_named_user_value", o, named_user_value(o, name))
               /\ top' = [top EXCEPT ![t] = StackGuard_drop(sg, top[t] + 1 - 1 + 1 - 1)]

\* ------------------------------------------------- metatables and equality
\* The metatable an object carries: the one attached when it was created, or
\* the destructed metatable of its runtime instance.
metatable_of_type(o) ==
    IF ty[o] = DestructedUserdata THEN 0 - 1 - LuaOf(o)
    ELSE registry.tables[1][ty[o]]

metatable(o) ==
    IF ty[o] = DestructedUserdata THEN 0 - 1 - LuaOf(o)
    ELSE registry.mt[o]

\* The payload type T registers an equality hook; the wrappers of T take
\* over T's meta-methods; U registers none.
has_eq(id) == id \in {TypeT, RcRefCell, ArcMutex, ArcRwLock}

\* get_raw_metatable: reference and metatable pushed, the metatable popped
\* into a handle, the guard restores the rest.
get_raw_metatable_top(t, p) ==
    IF p.err # "" THEN StackGuard_drop(StackGuard_new(t), top[t] + 1)
    ELSE StackGuard_drop(StackGuard_new(t), top[t] + 2 - 1)

get_metatable(o, p) ==
    /\ last' = IF p.err # "" THEN Result("get_metatable", o, p.err)
               ELSE [Result("get_metatable", o, "Ok") EXCEPT !.value = metatable(o)]
    /\ top' = [top EXCEPT ![LuaOf(o)] = get_raw_metatable_top(LuaOf(o), p)]
    /\ UNCHANGED <<others_uv, uv>>

\* The equality hooks a host may register: what the hook answers, by the
\* arguments it is called with.
HookAnswers == {"true", "false", "CallbackError"}
EqHooks(a, b) == [{<<a, b>>, <<b, a>>} -> HookAnswers]

\* AnyUserData::equals; hook is the equality hook of the metatable.
equals_result_hook_first(a, b, pa, pb, hook) ==
    IF pa.err # "" THEN pa.err
    ELSE IF pb.err # "" THEN pb.err
    ELSE IF metatable(a) # metatable(b) THEN "false"
    ELSE IF has_eq(ty[a]) THEN hook[<<a, b>>]
    ELSE "false"

equals_result(a, b, pa, pb, hook) ==
    IF a = b THEN "true"
    ELSE IF pa.err # "" THEN pa.err
    ELSE IF pb.err # "" THEN pb.err
    ELSE IF metatable(a) # metatable(b) THEN "false"
    ELSE IF has_eq(ty[a]) THEN hook[<<a, b>>]
    ELSE "false"

equals_top(t, a, b, pa, pb) ==
    IF a = b THEN top[t]
    ELSE IF pa.err # "" THEN get_raw_metatable_top(t, pa)
    ELSE get_raw_metatable_top(t, pb)

equals(a, b, pa, pb, hook) ==
    /\ last' = Result("equals", a, equals_result(a, b, pa, pb, hook))
    /\ top' = [top EXCEPT ![LuaOf(a)] = equals_top(LuaOf(a), a, b, pa, pb)]
    /\ UNCHANGED <<others_uv, uv>>

\* Creating a userdata of type id in the place of object o: the object gets
\* the metatable cached for its type in its runtime instance, built now if
\* this is the first use of the type there, and no user values.
create_userdata(o, id) ==
    /\ cell[o] = 0 /\ refs[o] = 0 /\ muts[o] = 0
    /\ \A t \in Threads : \A i \in 1 .. Len(stack[t]) : stack[t][i].obj # o
    /\ LET i == LuaOf(o)
           cached == registry.tables[i][id]
       IN  IF cached # 0 THEN
               registry' = [registry EXCEPT !.mt[o] = cached]
           ELSE
               registry' = [registry EXCEPT !.tables[i][id] = registry.next,
                                            !.builds[i][id] = @ + 1,
                                            !.mt[o] = registry.next,
                                            !.next = @ + 1]
    /\ ty' = [ty EXCEPT ![o] = id]
    /\ attached' = [attached EXCEPT ![o] = TRUE]
    /\ uv' = [uv EXCEPT ![o] = NoUserValues]
    /\ last' = Result("create_userdata", o, "Ok")
    /\ UNCHANGED <<kind, futures, meta, cell, inner, val, applied, refs, muts, stack, busy, top>>

\* ------------------------------------------------------------ meta-methods
others_meta ==
    <<kind, futures, registry, ty, attached, cell, inner, val, applied, refs, muts, stack, busy, top, uv>>

\* str::starts_with
starts_with(name, prefix) ==
    /\ Len(name) >= Len(prefix)
    /\ SubSeq(name, 1, Len(prefix)) = prefix

\* MetaMethod::validate: the error, if any, and the name handed back.
validate_exact_names_only(name) ==
    IF name = GC THEN [err |-> "MetaMethodRestricted", name |-> name]
    ELSE IF name = METATABLE THEN [err |-> "MetaMethodRestricted", name |-> name]
    ELSE [err |-> "", name |-> name]

validate(name) ==
    IF name = GC THEN [err |-> "MetaMethodRestricted", name |-> name]
    ELSE IF name = METATABLE THEN [err |-> "MetaMethodRestricted", name |-> name]
    ELSE IF starts_with(name, MLUA_PREFIX) THEN [err |-> "MetaMethodRestricted", name |-> name]
    ELSE [err |-> "", name |-> name]

\* The declarations of T: each add_meta_* pushes (name, callback) and returns
\* nothing.
CanDeclare ==
    /\ ~meta.built
    /\ Len(meta.meta_methods) + Len(meta.async_meta_methods) + Len(meta.meta_fields) < MaxDecl

push_meta_method(op, name) ==
    /\ CanDeclare
    /\ meta' = [meta EXCEPT !.meta_methods = Append(@, name)]
    /\ last' = Result(op, NoObj, "()")
    /\ UNCHANGED others_meta

add_meta_method(name) == push_meta_method("add_meta_method", name)
add_meta_method_mut(name) == push_meta_method("add_meta_method_mut", name)
add_meta_function(name) == push_meta_method("add_meta_function", name)
add_meta_function_mut(name) == push_meta_method("add_meta_function_mut", name)

add_meta_field_with(name) ==
    /\ CanDeclare
    /\ meta' = [meta EXCEPT !.meta_fields = Append(@, name)]
    /\ last' = Result("add_meta_field_with", NoObj, "()")
    /\ UNCHANGED others_meta

\* What the closure a host hands to add_meta_field_with comes back with: a
\* value of one of these types, or its own error.
ValueTypes == {Nil, "table", "function", "boolean", "integer", "string"}
InitializerOutcomes == ValueTypes \cup {"CallbackError"}

meta_field_initializer_index_only(name, outcome) ==
    IF outcome = "CallbackError" THEN "CallbackError"
    ELSE IF name = INDEX /\ outcome \notin {Nil, "table", "function"}
         THEN "MetaMethodTypeError"
    ELSE outcome

\* The closure add_meta_field_with stores: f(lua)?, then the type check for
\* the index hooks, then Ok(value).
meta_field_initializer(name, outcome) ==
    IF outcome = "CallbackError" THEN "CallbackError"
    ELSE IF (name = INDEX \/ name = NEWINDEX) /\ outcome \notin {Nil, "table", "function"}
         THEN "MetaMethodTypeError"
    ELSE outcome

\* Running the i-th stored meta-field initializer of T.
run_meta_field(i, outcome) ==
    /\ i \in 1..Len(meta.meta_fields)
    /\ last' = Result("meta_field", NoObj, meta_field_initializer(meta.meta_fields[i], outcome))
    /\ UNCHANGED <<meta, others_meta>>

\* The regular declarations of T: methods, async methods, field getters and
\* setters, each pushed on its own list.
CanDeclareRegular ==
    /\ ~meta.built
    /\ Len(meta.methods) + Len(meta.async_methods)
         + Len(meta.field_getters) + Len(meta.field_setters) < MaxDecl

add_method(name) ==
    /\ CanDeclareRegular
    /\ meta' = [meta EXCEPT !.methods = Append(@, name)]
    /\ last' = Result("add_method", NoObj, "()")
    /\ UNCHANGED others_meta

add_async_method(name) ==
    /\ CanDeclareRegular
    /\ meta' = [meta EXCEPT !.async_methods = Append(@, name)]
    /\ last' = Result("add_async_method", NoObj, "()")
    /\ UNCHANGED others_meta

add_async_meta_method(name) ==
    /\ CanDeclare
    /\ meta' = [meta EXCEPT !.async_meta_methods = Append(@, name)]
    /\ last' = Result("add_async_meta_method", NoObj, "()")
    /\ UNCHANGED others_meta

add_field_method_get(name) ==
    /\ CanDeclareRegular
    /\ meta' = [meta EXCEPT !.field_getters = Append(@, name)]
    /\ last' = Result("add_field_method_get", NoObj, "()")
    /\ UNCHANGED others_meta

add_field_method_set(name) ==
    /\ CanDeclareRegular
    /\ meta' = [meta EXCEPT !.field_setters = Append(@, name)]
    /\ last' = Result("add_field_method_set", NoObj, "()")
    /\ UNCHANGED others_meta

\* lua_userdata_impl!: what a wrapper of T declares, taken over from T.
lua_userdata_impl_without_methods(decl) ==
    [methods |-> << >>, async_methods |-> decl.async_methods,
     meta_methods |-> decl.meta_methods, async_meta_methods |-> decl.async_meta_methods,
     field_getters |-> decl.field_getters, field_setters |-> decl.field_setters,
     meta_fields |-> << >>]

lua_userdata_impl(decl) ==
    [methods |-> decl.methods, async_methods |-> decl.async_methods,
     meta_methods |-> decl.meta_methods, async_meta_methods |-> decl.async_meta_methods,
     field_getters |-> decl.field_getters, field_setters |-> decl.field_setters,
     meta_fields |-> << >>]

\* What the host type of kind id declares: T itself, a wrapper of T, or U,
\* which declares nothing.
Declared(m) ==
    [methods |-> m.methods, async_methods |-> m.async_methods,
     meta_methods |-> m.meta_methods, async_meta_methods |-> m.async_meta_methods,
     field_getters |-> m.field_getters, field_setters |-> m.field_setters,
     meta_fields |-> m.meta_fields]

declarations(id) ==
    IF id = TypeT THEN Declared(meta)
    ELSE IF id \in {RcRefCell, ArcMutex, ArcRwLock} THEN lua_userdata_impl(meta)
    ELSE Declared(NoDeclarations)

\* Building the metatable on the first use of the host type: the meta-methods
\* then the meta-fields are installed under their validated names; the first
\* restricted name ends the build with its error.
Range(seq) == {seq[i] : i \in 1 .. Len(seq)}
register_userdata_metatable ==
    LET d == declarations(kind)
        names == d.meta_methods \o d.async_meta_methods \o d.meta_fields
        bad == {i \in 1 .. Len(names) : validate(names[i]).err # ""}
    IN  /\ ~meta.built
        /\ IF bad # {} THEN
               /\ last' = Result("create_userdata", "X", "MetaMethodRestricted")
               /\ UNCHANGED meta
           ELSE
               /\ last' = Result("create_userdata", "X", "Ok")
               /\ meta' = [meta EXCEPT !.built = TRUE,
                                       !.table = {validate(n).name : n \in Range(names)}]
        /\ UNCHANGED others_meta

\* An index access `obj[key]` by a script: the generated __index looks the key
\* up among the field getters, then the methods, and falls back to the
\* __index the host declared.
index(key) ==
    LET d == declarations(kind) IN
    /\ meta.built
    /\ last' = Result("index", "X",
                      IF key \in Range(d.field_getters) THEN "field_getter"
                      ELSE IF key \in Range(d.methods) \cup Range(d.async_methods) THEN "method"
                      ELSE IF INDEX \in meta.table THEN "host_index"
                      ELSE Nil)
    /\ UNCHANGED <<meta, others_meta>>

\* An index write `obj[key] = value` by a script: the generated __newindex
\* looks the key up among the field setters and falls back to the
\* __newindex the host declared.
newindex(key) ==
    LET d == declarations(kind) IN
    /\ meta.built
    /\ last' = Result("newindex", "X",
                      IF key \in Range(d.field_setters) THEN "field_setter"
                      ELSE IF NEWINDEX \in meta.table THEN "host_newindex"
                      ELSE "RuntimeError")
    /\ UNCHANGED <<meta, others_meta>>

\* UserDataMetatable::get: raw_get under the validated key.
metatable_get(key) ==
    LET k == validate(key) IN
    /\ meta.built
    /\ last' = Result("metatable_get", "X",
                      IF k.err # "" THEN k.err
                      ELSE IF k.name \in meta.table THEN "function" ELSE Nil)
    /\ UNCHANGED <<meta, others_meta>>

\* UserDataMetatable::set: raw_set under the validated key, unless the key
\* is the index or new-index hook; a nil value removes the key.
metatable_set_index_allowed(key, v) ==
    LET k == validate(key) IN
    /\ meta.built
    /\ IF k.err # "" THEN
           /\ last' = Result("metatable_set", "X", k.err)
           /\ UNCHANGED meta
       ELSE
           /\ last' = Result("metatable_set", "X", "Ok")
           /\ meta' = [meta EXCEPT !.table = IF v = Nil THEN @ \ {k.name}
                                                         ELSE @ \cup {k.name}]
    /\ UNCHANGED others_meta

metatable_set(key, v) ==
    LET k == validate(key) IN
    /\ meta.built
    /\ IF k.err # "" THEN
           /\ last' = Result("metatable_set", "X", k.err)
           /\ UNCHANGED meta
       ELSE IF k.name = INDEX \/ k.name = NEWINDEX THEN
           /\ last' = Result("metatable_set", "X", "MetaMethodRestricted")
           /\ UNCHANGED meta
       ELSE
           /\ last' = Result("metatable_set", "X", "Ok")
           /\ meta' = [meta EXCEPT !.table = IF v = Nil THEN @ \ {k.name}
                                                         ELSE @ \cup {k.name}]
    /\ UNCHANGED others_meta

\* The entries the runtime keeps in the raw metatable under reserved names,
\* next to the ones built from the declarations.
InternalEntries == {GC, METATABLE, MLUA_PREFIX \o <<"_">>}
RawTable == meta.table \cup InternalEntries

\* The orders a traversal of the raw table may visit the keys of S in.
Orders(S) ==
    {f \in [1 .. Cardinality(S) -> S] : \A i, j \in 1 .. Cardinality(S) : f[i] = f[j] => i = j}

\* UserDataMetatable::pairs: the view is consumed into an iterator over the
\* raw table.
metatable_pairs(order) ==
    /\ meta.built
    /\ meta' = [meta EXCEPT !.pairs = [live |-> TRUE, rest |-> order, item |-> << >>]]
    /\ last' = Result("metatable_pairs", "X", "Ok")
    /\ UNCHANGED others_meta

\* UserDataMetatablePairs::next: converts[key] tells whether the entry under
\* key converts to (String, V) when the table iterator comes to it.
RECURSIVE UserDataMetatablePairs_next_ending_on_error(_, _)
UserDataMetatablePairs_next_ending_on_error(rest, converts) ==
    IF rest = << >> THEN [res |-> "None", item |-> << >>, rest |-> << >>]
    ELSE IF ~converts[Head(rest)]
         THEN [res |-> "Some(Err)", item |-> Head(rest), rest |-> << >>]
    ELSE IF validate(Head(rest)).err = ""
         THEN [res |-> "Some(Ok)", item |-> Head(rest), rest |-> Tail(rest)]
    ELSE UserDataMetatablePairs_next_ending_on_error(Tail(rest), converts)

RECURSIVE UserDataMetatablePairs_next(_, _)
UserDataMetatablePairs_next(rest, converts) ==
    IF rest = << >> THEN [res |-> "None", item |-> << >>, rest |-> << >>]
    ELSE IF ~converts[Head(rest)]
         THEN [res |-> "Some(Err)", item |-> Head(rest), rest |-> Tail(rest)]
    ELSE IF validate(Head(rest)).err = ""
         THEN [res |-> "Some(Ok)", item |-> Head(rest), rest |-> Tail(rest)]
    ELSE UserDataMetatablePairs_next(Tail(rest), converts)

pairs_next(converts) ==
    LET n == UserDataMetatablePairs_next(meta.pairs.rest, converts) IN
    /\ meta.pairs.live
    /\ meta' = [meta EXCEPT !.pairs.rest = n.rest, !.pairs.item = n.item]
    /\ last' = Result("pairs_next", "X", n.res)
    /\ UNCHANGED others_meta

\* UserDataMetatable::contains: contains_key under the validated key.
metatable_contains(key) ==
    LET k == validate(key) IN
    /\ meta.built
    /\ last' = Result("metatable_contains", "X",
                      IF k.err # "" THEN k.err
                      ELSE IF k.name \in meta.table THEN "true" ELSE "false")
    /\ UNCHANGED <<meta, others_meta>>

\* ------------------------------------------------------ callback dispatch
DepthBound(t) == IF t = 1 THEN MaxDepth ELSE 1
Fronts(t) == {"missing", "not_userdata"} \cup ObjectsOf(t)

Acquired(c, i, cb, ib, ret) ==
    [err |-> "", cell |-> c, inner |-> i, cellB |-> cb, innerB |-> ib, returns |-> ret]
Failed(e, c, i, ret) ==
    [err |-> e, cell |-> c, inner |-> i, cellB |-> "none", innerB |-> "none", returns |-> ret]

\* The match over the type identity in box_method: c is the flag of the
\* object's cell, i the flag of the wrapper inside it.
box_method_arm_unresolved(id, c, i) ==
    LET ud == get_userdata_ref(c) IN
    IF ud.ok THEN Acquired(ud.flag, i, "ref", "none", TRUE)
    ELSE Failed("UserDataBorrowError", c, i, TRUE)

box_method_arm_without_mutex(id, c, i) ==
    LET ud == get_userdata_ref(c) IN
    CASE id = TypeT ->
           IF ud.ok THEN Acquired(ud.flag, i, "ref", "none", TRUE)
           ELSE Failed("UserDataBorrowError", c, i, TRUE)
      [] id = RcRefCell ->
           IF ~ud.ok THEN Failed("UserDataBorrowError", c, i, TRUE)
           ELSE LET g == try_borrow(i) IN
                IF g.ok THEN Acquired(ud.flag, g.flag, "ref", "read", TRUE)
                ELSE Failed("UserDataBorrowError", c, i, TRUE)
      [] id = ArcRwLock ->
           IF ~ud.ok THEN Failed("UserDataBorrowError", c, i, TRUE)
           ELSE LET g == try_read(i) IN
                IF g.ok THEN Acquired(ud.flag, g.flag, "ref", "read", g.returns)
                ELSE Failed("UserDataBorrowError", c, i, g.returns)
      [] OTHER -> Failed("UserDataTypeMismatch", c, i, TRUE)

box_method_arm(id, c, i) ==
    LET ud == get_userdata_ref(c) IN
    CASE id = TypeT ->
           IF ud.ok THEN Acquired(ud.flag, i, "ref", "none", TRUE)
           ELSE Failed("UserDataBorrowError", c, i, TRUE)
      [] id = RcRefCell ->
           IF ~ud.ok THEN Failed("UserDataBorrowError", c, i, TRUE)
           ELSE LET g == try_borrow(i) IN
                IF g.ok THEN Acquired(ud.flag, g.flag, "ref", "read", TRUE)
                ELSE Failed("UserDataBorrowError", c, i, TRUE)
      [] id = ArcMutex ->
           IF ~ud.ok THEN Failed("UserDataBorrowError", c, i, TRUE)
           ELSE LET g == try_lock(i) IN
                IF g.ok THEN Acquired(ud.flag, g.flag, "ref", "write", g.returns)
                ELSE Failed("UserDataBorrowError", c, i, g.returns)
      [] id = ArcRwLock ->
           IF ~ud.ok THEN Failed("UserDataBorrowError", c, i, TRUE)
           ELSE LET g == try_read(i) IN
                IF g.ok THEN Acquired(ud.flag, g.flag, "ref", "read", g.returns)
                ELSE Failed("UserDataBorrowError", c, i, g.returns)
      [] OTHER -> Failed("UserDataTypeMismatch", c, i, TRUE)

\* The match over the type identity in box_method_mut.
box_method_mut_arm(id, c, i) ==
    LET ud == get_userdata_mut(c) IN
    CASE id = TypeT ->
           IF ud.ok THEN Acquired(ud.flag, i, "mut", "none", TRUE)
           ELSE Failed("UserDataBorrowMutError", c, i, TRUE)
      [] id = RcRefCell ->
           IF ~ud.ok THEN Failed("UserDataBorrowMutError", c, i, TRUE)
           ELSE LET g == try_borrow_mut(i) IN
                IF g.ok THEN Acquired(ud.flag, g.flag, "mut", "write", TRUE)
                ELSE Failed("UserDataBorrowMutError", c, i, TRUE)
      [] id = ArcMutex ->
           IF ~ud.ok THEN Failed("UserDataBorrowMutError", c, i, TRUE)
           ELSE LET g == try_lock(i) IN
                IF g.ok THEN Acquired(ud.flag, g.flag, "mut", "write", g.returns)
                ELSE Failed("UserDataBorrowMutError", c, i, g.returns)
      [] id = ArcRwLock ->
           IF ~ud.ok THEN Failed("UserDataBorrowMutError", c, i, TRUE)
           ELSE LET g == try_write(i) IN
                IF g.ok THEN Acquired(ud.flag, g.flag, "mut", "write", g.returns)
                ELSE Failed("UserDataBorrowMutError", c, i, g.returns)
      [] OTHER -> Failed("UserDataTypeMismatch", c, i, TRUE)

\* The closure of "add" calls back into the runtime, if it does, before it
\* mutates the payload.
CanCall(t) == Len(stack[t]) > 0 => stack[t][Len(stack[t])].pc = 0

\* RefCell::try_borrow_mut on the cell around a mutably captured closure.
closure_borrow_unchecked(b) == TRUE
closure_try_borrow_mut(b) == ~b

Frame(cb, o, a, sg, entry) ==
    [cb |-> cb, obj |-> o, cellB |-> a.cellB, innerB |-> a.innerB,
     sg |-> sg, entry |-> entry, pc |-> 0, tmp |-> 0]

\* A callback that fails before it reaches the host closure.
Reject(t, cb, o, e, newtop) ==
    /\ last' = Result(cb, o, e)
    /\ top' = [top EXCEPT ![t] = newtop]
    /\ UNCHANGED <<kind, futures, meta, registry, ty, attached, cell, inner, val, applied, refs, muts, stack, busy, uv>>

\* The host closure is entered: the borrows are held in the activation.
Enter(t, cb, o, a) ==
    /\ Len(stack[t]) < DepthBound(t)
    /\ CanCall(t)
    /\ stack' = [stack EXCEPT ![t] = Append(@, Frame(cb, o, a, StackGuard_new(t), top[t]))]
    /\ cell' = [cell EXCEPT ![o] = a.cell]
    /\ inner' = [inner EXCEPT ![pay(o)] = a.inner]
    /\ top' = [top EXCEPT ![t] = top[t] + 1]
    /\ last' = Result(cb, o, "entered")
    /\ UNCHANGED <<kind, futures, meta, registry, ty, attached, val, applied, refs, muts, uv>>

box_method_args_first(t, front, argsOk, p) ==
    IF front = "missing" THEN
        Reject(t, "get", NoObj, "FromLuaConversionError", top[t])
    ELSE IF front = "not_userdata" THEN
        Reject(t, "get", NoObj, "FromLuaConversionError", top[t])
    ELSE
        LET sg == StackGuard_new(t)
            a == box_method_arm(p.type_id, cell[front], inner[pay(front)])
        IN  IF p.err # "" THEN
                Reject(t, "get", front, p.err, StackGuard_drop(sg, top[t] + 1))
            ELSE
                /\ a.returns
                /\ IF a.err = "UserDataTypeMismatch" THEN
                       Reject(t, "get", front, a.err, StackGuard_drop(sg, top[t] + 1))
                   ELSE IF ~argsOk THEN
                       Reject(t, "get", front, "FromLuaConversionError",
                              StackGuard_drop(sg, top[t] + 1))
                   ELSE IF a.err # "" THEN
                       Reject(t, "get", front, a.err, StackGuard_drop(sg, top[t] + 1))
                   ELSE Enter(t, "get", front, a) /\ UNCHANGED busy

\* The callback made by box_method for the read-only method "get".
box_method(t, front, argsOk, p) ==
    IF front = "missing" THEN
        Reject(t, "get", NoObj, "FromLuaConversionError", top[t])
    ELSE IF front = "not_userdata" THEN
        Reject(t, "get", NoObj, "FromLuaConversionError", top[t])
    ELSE
        LET sg == StackGuard_new(t)
            a == box_method_arm(p.type_id, cell[front], inner[pay(front)])
        IN  IF p.err # "" THEN
                Reject(t, "get", front, p.err, StackGuard_drop(sg, top[t] + 1))
            ELSE
                /\ a.returns
                /\ IF a.err # "" THEN
                       Reject(t, "get", front, a.err, StackGuard_drop(sg, top[t] + 1))
                   ELSE IF ~argsOk THEN
                       Reject(t, "get", front, "FromLuaConversionError",
                              StackGuard_drop(sg, top[t] + 1))
                   ELSE Enter(t, "get", front, a) /\ UNCHANGED busy

box_method_mut_cb_guard_per_object(cb, t, front, argsOk, p) ==
    IF front = "missing" THEN
        Reject(t, cb, NoObj, "FromLuaConversionError", top[t])
    ELSE IF front = "not_userdata" THEN
        Reject(t, cb, NoObj, "FromLuaConversionError", top[t])
    ELSE IF \E i \in 1 .. Len(stack[t]) : stack[t][i].cb = cb /\ stack[t][i].obj = front THEN
        Reject(t, cb, front, "RecursiveMutCallback", top[t])
    ELSE
        LET sg == StackGuard_new(t)
            a == box_method_mut_arm(p.type_id, cell[front], inner[pay(front)])
        IN  IF p.err # "" THEN
                Reject(t, cb, front, p.err, StackGuard_drop(sg, top[t] + 1))
            ELSE
                /\ a.returns
                /\ IF a.err # "" THEN
                       Reject(t, cb, front, a.err, StackGuard_drop(sg, top[t] + 1))
                   ELSE IF ~argsOk THEN
                       Reject(t, cb, front, "FromLuaConversionError",
                              StackGuard_drop(sg, top[t] + 1))
                   ELSE /\ Enter(t, cb, front, a)
                        /\ busy' = [busy EXCEPT ![t][cb] = TRUE]

\* The callback made by box_method_mut for a mutable method cb.
box_method_mut_cb(cb, t, front, argsOk, p) ==
    IF front = "missing" THEN
        Reject(t, cb, NoObj, "FromLuaConversionError", top[t])
    ELSE IF front = "not_userdata" THEN
        Reject(t, cb, NoObj, "FromLuaConversionError", top[t])
    ELSE IF ~closure_try_borrow_mut(busy[t][cb]) THEN
        Reject(t, cb, front, "RecursiveMutCallback", top[t])
    ELSE
        LET sg == StackGuard_new(t)
            a == box_method_mut_arm(p.type_id, cell[front], inner[pay(front)])
        IN  IF p.err # "" THEN
                Reject(t, cb, front, p.err, StackGuard_drop(sg, top[t] + 1))
            ELSE
                /\ a.returns
                /\ IF a.err # "" THEN
                       Reject(t, cb, front, a.err, StackGuard_drop(sg, top[t] + 1))
                   ELSE IF ~argsOk THEN
                       Reject(t, cb, front, "FromLuaConversionError",
                              StackGuard_drop(sg, top[t] + 1))
                   ELSE /\ Enter(t, cb, front, a)
                        /\ busy' = [busy EXCEPT ![t][cb] = TRUE]

\* The callbacks of the mutable methods "add" and "set".
box_method_mut(t, front, argsOk, p) == box_method_mut_cb("add", t, front, argsOk, p)
box_method_mut_set(t, front, argsOk, p) == box_method_mut_cb("set", t, front, argsOk, p)

\* The callback made by box_function_mut for the mutable function "fmut".
box_function_mut(t, argsOk) ==
    IF ~closure_try_borrow_mut(busy[t]["fmut"]) THEN
        Reject(t, "fmut", NoObj, "RecursiveMutCallback", top[t])
    ELSE IF ~argsOk THEN
        Reject(t, "fmut", NoObj, "FromLuaConversionError", top[t])
    ELSE
        /\ Len(stack[t]) < DepthBound(t)
        /\ CanCall(t)
        /\ stack' = [stack EXCEPT ![t] = Append(@,
                [cb |-> "fmut", obj |-> NoObj, cellB |-> "none", innerB |-> "none",
                 sg |-> top[t], entry |-> top[t], pc |-> 0, tmp |-> 0])]
        /\ busy' = [busy EXCEPT ![t]["fmut"] = TRUE]
        /\ last' = Result("fmut", NoObj, "entered")
        /\ UNCHANGED <<kind, futures, meta, registry, ty, attached, cell, inner, val, applied, refs, muts, top, uv>>

\* ---------------------------------------------------- inside host closures
Top(t) == stack[t][Len(stack[t])]
SetTop(t, f) == [stack EXCEPT ![t] = [@ EXCEPT ![Len(@)] = f]]

\* `this.0 += value` of the method "add": the read ...
add_read(t) ==
    /\ Len(stack[t]) > 0
    /\ Top(t).cb = "add"
    /\ Top(t).pc = 0
    /\ val[pay(Top(t).obj)] < MaxVal
    /\ stack' = SetTop(t, [Top(t) EXCEPT !.pc = 1, !.tmp = val[pay(Top(t).obj)]])
    /\ UNCHANGED <<kind, futures, meta, registry, ty, attached, cell, inner, val, applied, refs, muts, busy, top, last, uv>>

\* ... and the write.
add_write(t) ==
    /\ Len(stack[t]) > 0
    /\ Top(t).cb = "add"
    /\ Top(t).pc = 1
    /\ val' = [val EXCEPT ![pay(Top(t).obj)] = Top(t).tmp + 1]
    /\ applied' = [applied EXCEPT ![pay(Top(t).obj)] = @ + 1]
    /\ stack' = SetTop(t, [Top(t) EXCEPT !.pc = 2])
    /\ UNCHANGED <<kind, futures, meta, registry, ty, attached, cell, inner, refs, muts, busy, top, last, uv>>

\* `this.0 = value` of the method "set", called with the argument v.
set_write_to_copy(t, v) ==
    /\ Len(stack[t]) > 0
    /\ Top(t).cb = "set"
    /\ Top(t).pc = 0
    /\ stack' = SetTop(t, [Top(t) EXCEPT !.pc = 2, !.tmp = v])
    /\ UNCHANGED <<kind, futures, meta, registry, ty, attached, cell, inner, val, applied, refs, muts, busy, top, last, uv>>

set_write(t, v) ==
    /\ Len(stack[t]) > 0
    /\ Top(t).cb = "set"
    /\ Top(t).pc = 0
    /\ val' = [val EXCEPT ![pay(Top(t).obj)] = v]
    /\ stack' = SetTop(t, [Top(t) EXCEPT !.pc = 2, !.tmp = v])
    /\ UNCHANGED <<kind, futures, meta, registry, ty, attached, cell, inner, applied, refs, muts, busy, top, last, uv>>

\* What the closure of a method hands back: "get" returns the field.
return_value_lost(f) == NoValue
return_value(f) == IF f.cb = "get" THEN val[pay(f.obj)] ELSE NoValue

release_lock_kept(flag, b) ==
    CASE b = "ref" -> drop_ref(flag)
      [] b = "read" -> drop_ref(flag)
      [] b = "mut" -> drop_mut(flag)
      [] OTHER -> flag

release(flag, b) ==
    CASE b = "ref" -> drop_ref(flag)
      [] b = "read" -> drop_ref(flag)
      [] b = "mut" -> drop_mut(flag)
      [] b = "write" -> drop_mut(flag)
      [] OTHER -> flag

callback_return_keeping_guard_on_error(t, ok) ==
    /\ Len(stack[t]) > 0
    /\ LET f == Top(t) IN
       /\ f.cb \in {"add", "set"} => f.pc = (IF ok THEN 2 ELSE 0)
       /\ stack' = [stack EXCEPT ![t] = SubSeq(@, 1, Len(@) - 1)]
       /\ IF f.obj = NoObj
          THEN UNCHANGED <<cell, inner, top>>
          ELSE /\ cell' = [cell EXCEPT ![f.obj] = release(@, f.cellB)]
               /\ inner' = [inner EXCEPT ![pay(f.obj)] = release(@, f.innerB)]
               /\ top' = [top EXCEPT ![t] = StackGuard_drop(f.sg, top[t])]
       /\ busy' = IF f.cb \in MutCallbacks /\ ok
                  THEN [busy EXCEPT ![t][f.cb] = FALSE] ELSE busy
       /\ last' = IF ok THEN [Result("return", f.obj, "Ok") EXCEPT !.value = return_value(f)]
                  ELSE Result("return", f.obj, "CallbackError")
    /\ UNCHANGED <<kind, futures, meta, registry, ty, attached, val, applied, refs, muts, uv>>

\* The host closure returns (ok) or fails; the callback's locals are dropped:
\* the lock guard, the cell borrow, the stack guard, the closure's RefCell.
callback_return(t, ok) ==
    /\ Len(stack[t]) > 0
    /\ LET f == Top(t) IN
       /\ f.cb \in {"add", "set"} => f.pc = (IF ok THEN 2 ELSE 0)
       /\ stack' = [stack EXCEPT ![t] = SubSeq(@, 1, Len(@) - 1)]
       /\ IF f.obj = NoObj
          THEN UNCHANGED <<cell, inner, top>>
          ELSE /\ cell' = [cell EXCEPT ![f.obj] = release(@, f.cellB)]
               /\ inner' = [inner EXCEPT ![pay(f.obj)] = release(@, f.innerB)]
               /\ top' = [top EXCEPT ![t] = StackGuard_drop(f.sg, top[t])]
       /\ busy' = IF f.cb \in MutCallbacks
                  THEN [busy EXCEPT ![t][f.cb] = FALSE] ELSE busy
       /\ last' = IF ok THEN [Result("return", f.obj, "Ok") EXCEPT !.value = return_value(f)]
                  ELSE Result("return", f.obj, "CallbackError")
    /\ UNCHANGED <<kind, futures, meta, registry, ty, attached, val, applied, refs, muts, uv>>

\* The flag of a std::sync lock that is free but poisoned: try_lock, try_read
\* and try_write return Err(Poisoned), which map_err(|_| ..) turns into the
\* same error as a lock that is held.
Poisoned == 0 - 2

\* A guard dropped while a panic unwinds: the guard of a std Mutex and the
\* write guard of a std RwLock poison their lock, a read guard and the
\* borrows of a RefCell are released as on a return.
unwind(id, flag, b) ==
    IF id \in {ArcMutex, ArcRwLock} /\ b = "write" THEN Poisoned
    ELSE release(flag, b)

\* The host closure panics: the callback's locals are dropped by the
\* unwinding, as on a return, and the activation is gone.
callback_panic(t) ==
    /\ Len(stack[t]) > 0
    /\ LET f == Top(t) IN
       /\ f.obj # NoObj
       /\ stack' = [stack EXCEPT ![t] = SubSeq(@, 1, Len(@) - 1)]
       /\ cell' = [cell EXCEPT ![f.obj] = release(@, f.cellB)]
       /\ inner' = [inner EXCEPT ![pay(f.obj)] = unwind(ty[f.obj], @, f.innerB)]
       /\ top' = [top EXCEPT ![t] = StackGuard_drop(f.sg, top[t])]
       /\ busy' = IF f.cb \in MutCallbacks
                  THEN [busy EXCEPT ![t][f.cb] = FALSE] ELSE busy
       /\ last' = Result("return", f.obj, "panic")
    /\ UNCHANGED <<kind, futures, meta, registry, ty, attached, val, applied, refs, muts, uv>>

\* ------------------------------------------------------------ async methods
\* T::clone through the guard: an owned copy of the payload.
clone(v) == v

\* The guards the match arm of box_async_method holds are dropped when the
\* arm is left, after the method has been handed the clone.
guards_kept(flag, b) == flag
guards_dropped(flag, b) == release(flag, b)

\* The callback made by box_async_method for the async method "aget": it
\* comes back with a future, pending with the clone or ready with the error.
\* One future per object is followed at a time.
box_async_method(t, front, argsOk, p) ==
    IF front = "missing" THEN
        Reject(t, "aget", NoObj, "FromLuaConversionError", top[t])
    ELSE IF front = "not_userdata" THEN
        Reject(t, "aget", NoObj, "FromLuaConversionError", top[t])
    ELSE
        LET sg == StackGuard_new(t)
            a == box_method_arm(p.type_id, cell[front], inner[pay(front)])
        IN  IF p.err # "" THEN
                Reject(t, "aget", front, p.err, StackGuard_drop(sg, top[t] + 1))
            ELSE
                /\ a.returns
                /\ IF a.err # "" THEN
                       Reject(t, "aget", front, a.err, StackGuard_drop(sg, top[t] + 1))
                   ELSE IF ~argsOk THEN
                       Reject(t, "aget", front, "FromLuaConversionError",
                              StackGuard_drop(sg, top[t] + 1))
                   ELSE
                       /\ futures[front] = NoValue
                       /\ futures' = [futures EXCEPT ![front] = clone(val[pay(front)])]
                       /\ cell' = [cell EXCEPT ![front] = guards_dropped(a.cell, a.cellB)]
                       /\ inner' = [inner EXCEPT ![pay(front)] = guards_dropped(a.inner, a.innerB)]
                       /\ top' = [top EXCEPT ![t] = StackGuard_drop(sg, top[t] + 1)]
                       /\ last' = Result("aget", front, "pending")
                       /\ UNCHANGED <<kind, meta, registry, ty, attached, val, applied,
                                      refs, muts, stack, busy, uv>>

\* The pending future of o is polled and changes the T it owns.
future_write(o) ==
    /\ futures[o] # NoValue
    /\ futures[o] < MaxVal
    /\ futures' = [futures EXCEPT ![o] = @ + 1]
    /\ UNCHANGED <<kind, meta, registry, ty, attached, cell, inner, val, applied,
                   refs, muts, stack, busy, top, uv, last>>

\* The pending future of o completes with the value of its clone.
future_ready(o) ==
    /\ futures[o] # NoValue
    /\ futures' = [futures EXCEPT ![o] = NoValue]
    /\ last' = [Result("aget", o, "Ok") EXCEPT !.value = futures[o]]
    /\ UNCHANGED <<kind, meta, registry, ty, attached, cell, inner, val, applied,
                   refs, muts, stack, busy, top, uv>>

\* ------------------------------------------------------------ the system
Pushed(f) == IF f \in Objects THEN push_userdata_ref(f) ELSE {[err |-> "", type_id |-> "none"]}

\* The types a typed access is asked for: T, the unrelated U and the type the
\* objects were created with.
AskTypes == {TypeT, TypeU, kind}

Next ==
    \/ \E o \in HostObjects, T \in AskTypes : \E p \in push_userdata_ref(o) : is(o, T, p)
    \/ \E o \in HostObjects, T \in AskTypes : \E p \in push_userdata_ref(o) : borrow(o, T, p)
    \/ \E o \in HostObjects, T \in AskTypes : \E p \in push_userdata_ref(o) : borrow_mut(o, T, p)
    \/ \E o \in HostObjects, T \in AskTypes : \E p \in push_userdata_ref(o) : take(o, T, p)
    \/ \E o \in HostObjects : drop_Ref(o)
    \/ \E o \in HostObjects : drop_RefMut(o)
    \/ \E t \in Threads : \E f \in Fronts(t), ok \in BOOLEAN : \E p \in Pushed(f) :
          box_method(t, f, ok, p)
    \/ \E t \in Threads : \E f \in Fronts(t), ok \in BOOLEAN : \E p \in Pushed(f) :
          box_method_mut(t, f, ok, p)
    \/ \E ok \in BOOLEAN : box_function_mut(1, ok)
    \/ \E t \in Threads : add_read(t)
    \/ \E t \in Threads : add_write(t)
    \/ \E t \in Threads, ok \in BOOLEAN : callback_return(t, ok)

Spec == Init /\ [][Next]_vars

\* The handle API of one object of instance 1, with user values, metatable
\* access, equality and non-nested method calls.
NextHandle ==
    \/ \E T \in AskTypes : \E p \in push_userdata_ref("X") : is("X", T, p)
    \/ \E T \in AskTypes : \E p \in push_userdata_ref("X") :
          Len(stack[1]) = 0 /\ borrow("X", T, p)
    \/ \E T \in AskTypes : \E p \in push_userdata_ref("X") :
          Len(stack[1]) = 0 /\ borrow_mut("X", T, p)
    \/ \E T \in AskTypes : \E p \in push_userdata_ref("X") : take("X", T, p)
    \/ Len(stack[1]) = 0 /\ drop_Ref("X")
    \/ Len(stack[1]) = 0 /\ drop_RefMut("X")
    \/ \E n \in Indices, v \in Values : \E p \in push_userdata_ref("X") :
          set_nth_user_value("X", n, v, p)
    \/ \E n \in Indices : \E p \in push_userdata_ref("X") : get_nth_user_value("X", n, p)
    \/ \E name \in Names, v \in Values : \E p \in push_userdata_ref("X") :
          set_named_user_value("X", name, v, p)
    \/ \E name \in Names : \E p \in push_userdata_ref("X") :
          get_named_user_value("X", name, p)
    \/ \E p \in push_userdata_ref("X") : get_metatable("X", p)
    \/ \E b \in {"X", "Y"} : \E h \in EqHooks("X", b) :
          \E pa \in push_userdata_ref("X"), pb \in push_userdata_ref(b) :
              equals("X", b, pa, pb, h)
    \/ \E f \in {"missing", "X"}, ok \in BOOLEAN : \E p \in Pushed(f) :
          Len(stack[1]) = 0 /\ box_method(1, f, ok, p)
    \/ \E f \in {"missing", "X"}, ok \in BOOLEAN : \E p \in Pushed(f) :
          Len(stack[1]) = 0 /\ box_method_mut(1, f, ok, p)
    \/ add_read(1)
    \/ add_write(1)
    \/ \E ok \in BOOLEAN : callback_return(1, ok)

SpecHandle == Init /\ [][NextHandle]_vars

\* T's meta declarations, the first use of the host type, and the view of the
\* metatable.
NextMeta ==
    \/ \E name \in RegNames : add_meta_method(name)
    \/ \E name \in RegNames : add_meta_method_mut(name)
    \/ \E name \in RegNames : add_meta_function(name)
    \/ \E name \in RegNames : add_meta_function_mut(name)
    \/ \E name \in RegNames : add_meta_field_with(name)
    \/ register_userdata_metatable
    \/ \E key \in Keys : metatable_get(key)

SpecMeta == Init /\ [][NextMeta]_vars

\* Regular fields and methods, host index hooks, and scripts indexing X.
NextIndex ==
    \/ \E name \in FieldNames : add_field_method_get(name)
    \/ \E name \in FieldNames : add_field_method_set(name)
    \/ \E name \in FieldNames : add_method(name)
    \/ \E name \in {INDEX, NEWINDEX} : add_meta_method(name)
    \/ register_userdata_metatable
    \/ \E key \in FieldNames : index(key)
    \/ \E key \in FieldNames : newindex(key)

SpecIndex == Init /\ [][NextIndex]_vars

\* Every kind of declaration T can make, and the registration of the host type.
NextWrappers ==
    \/ \E name \in FieldNames : add_method(name)
    \/ \E name \in FieldNames : add_async_method(name)
    \/ \E name \in FieldNames : add_field_method_get(name)
    \/ \E name \in FieldNames : add_field_method_set(name)
    \/ add_meta_method(EQ)
    \/ add_async_meta_method(EQ)
    \/ add_meta_field_with(EQ)
    \/ register_userdata_metatable

SpecWrappers == Init /\ [][NextWrappers]_vars

\* Meta-fields of T and the run of their initializers.
MetaFieldNames == {INDEX, NEWINDEX, EQ, ADD}

NextMetaFields ==
    \/ \E name \in MetaFieldNames : add_meta_field_with(name)
    \/ \E i \in 1..MaxDecl, outcome \in InitializerOutcomes : run_meta_field(i, outcome)

SpecMetaFields == Init /\ [][NextMetaFields]_vars

\* The view of the metatable built from T's meta-methods.
NextView ==
    \/ \E name \in RegNames : add_meta_method(name)
    \/ register_userdata_metatable
    \/ \E key \in ViewKeys : metatable_get(key)
    \/ \E key \in ViewKeys, v \in SetValues : metatable_set(key, v)
    \/ \E key \in ViewKeys : metatable_contains(key)

SpecView == Init /\ [][NextView]_vars

\* Objects of two types in two runtime instances: creation, take, the
\* metatable and equality.
NextEquals ==
    \/ \E o \in {"Y", "Z"}, id \in {kind, TypeU} : create_userdata(o, id)
    \/ \E T \in AskTypes : \E p \in push_userdata_ref("X") : take("X", T, p)
    \/ \E o \in Objects : \E p \in push_userdata_ref(o) : get_metatable(o, p)
    \/ \E a \in {"X", "Y"}, b \in {"X", "Y"} : \E h \in EqHooks(a, b) :
          \E pa \in push_userdata_ref(a), pb \in push_userdata_ref(b) :
              equals(a, b, pa, pb, h)

SpecEquals == Init /\ [][NextEquals]_vars

\* The user values of the handle X, and take.
NextUserValues ==
    \/ \E n \in Indices, v \in Values : \E p \in push_userdata_ref("X") :
          set_nth_user_value("X", n, v, p)
    \/ \E n \in Indices : \E p \in push_userdata_ref("X") : get_nth_user_value("X", n, p)
    \/ \E name \in Names, v \in Values : \E p \in push_userdata_ref("X") :
          set_named_user_value("X", name, v, p)
    \/ \E name \in Names : \E p \in push_userdata_ref("X") :
          get_named_user_value("X", name, p)
    \/ \E T \in AskTypes : \E p \in push_userdata_ref("X") : take("X", T, p)

SpecUserValues == Init /\ [][NextUserValues]_vars

\* The methods "get" and "set" of instance 1 called on X and Y, nested calls
\* included.
SetArgs == 0 .. MaxVal
NextMethods ==
    \/ \E f \in Fronts(1), ok \in BOOLEAN : \E p \in Pushed(f) : box_method(1, f, ok, p)
    \/ \E f \in Fronts(1), ok \in BOOLEAN : \E p \in Pushed(f) : box_method_mut_set(1, f, ok, p)
    \/ \E v \in SetArgs : set_write(1, v)
    \/ \E ok \in BOOLEAN : callback_return(1, ok)

SpecMethods == Init /\ [][NextMethods]_vars

\* The pairs of the metatable of X, iterated.
PairKeys == {EQ} \cup InternalEntries
NextPairs ==
    \/ add_meta_method(EQ)
    \/ register_userdata_metatable
    \/ \E order \in Orders(RawTable) : metatable_pairs(order)
    \/ \E converts \in [PairKeys -> BOOLEAN] : pairs_next(converts)

SpecPairs == Init /\ [][NextPairs]_vars

\* Host borrows of X and the methods "get" and "add" of instance 1 on X.
HostAsks == {kind, TypeU}
NextBorrow ==
    \/ \E T \in HostAsks : \E p \in push_userdata_ref("X") : borrow("X", T, p)
    \/ \E T \in HostAsks : \E p \in push_userdata_ref("X") : borrow_mut("X", T, p)
    \/ drop_Ref("X")
    \/ drop_RefMut("X")
    \/ \E ok \in BOOLEAN : \E p \in push_userdata_ref("X") : box_method(1, "X", ok, p)
    \/ \E ok \in BOOLEAN : \E p \in push_userdata_ref("X") : box_method_mut(1, "X", ok, p)
    \/ add_read(1)
    \/ add_write(1)
    \/ \E ok \in BOOLEAN : callback_return(1, ok)

SpecBorrow == Init /\ [][NextBorrow]_vars

\* The async method "aget" of instance 1 on X, its future, and what the host
\* and a mutable method do to X meanwhile.
NextAsync ==
    \/ \E f \in {"missing", "X"}, ok \in BOOLEAN : \E p \in Pushed(f) :
          box_async_method(1, f, ok, p)
    \/ future_write("X")
    \/ future_ready("X")
    \/ \E T \in HostAsks : \E p \in push_userdata_ref("X") : borrow("X", T, p)
    \/ \E T \in HostAsks : \E p \in push_userdata_ref("X") : borrow_mut("X", T, p)
    \/ drop_Ref("X")
    \/ drop_RefMut("X")
    \/ \E T \in HostAsks : \E p \in push_userdata_ref("X") : take("X", T, p)
    \/ \E ok \in BOOLEAN : \E p \in push_userdata_ref("X") : box_method_mut(1, "X", ok, p)
    \/ add_read(1)
    \/ add_write(1)
    \/ \E ok \in BOOLEAN : callback_return(1, ok)

SpecAsync == Init /\ [][NextAsync]_vars

\* The methods "get", "add", "set" and the function "fmut" of instance 1 called
\* on X and Y, from the host and from inside one another; the closure of
\* "set" fails before it writes.
NextDispatch ==
    \/ \E f \in Fronts(1), ok \in BOOLEAN : \E p \in Pushed(f) : box_method(1, f, ok, p)
    \/ \E f \in Fronts(1), ok \in BOOLEAN : \E p \in Pushed(f) : box_method_mut(1, f, ok, p)
    \/ \E f \in Fronts(1), ok \in BOOLEAN : \E p \in Pushed(f) : box_method_mut_set(1, f, ok, p)
    \/ \E ok \in BOOLEAN : box_function_mut(1, ok)
    \/ add_read(1)
    \/ add_write(1)
    \/ \E ok \in BOOLEAN : callback_return(1, ok)

SpecDispatch == Init /\ [][NextDispatch]_vars

\* ================================================================ claims
\* The activations, of any thread, that hold a borrow of o's cell.
FramesOn(o, b) ==
    {<<t, i>> \in Threads \X (1 .. MaxDepth + 1) :
        /\ i <= Len(stack[t])
        /\ stack[t][i].obj = o
        /\ stack[t][i].cellB = b}

\* Borrows of o's cell handed out and not yet given back.
SharedOut(o) == refs[o] + Cardinality(FramesOn(o, "ref"))
ExclusiveOut(o) == muts[o] + Cardinality(FramesOn(o, "mut"))
Outstanding(o) == SharedOut(o) + ExclusiveOut(o)

\* The activations that were handed a reference to payload q: &T by the
\* read-only method, &mut T by the mutable one.
PayloadFrames(q, cb) ==
    {<<t, i>> \in Threads \X (1 .. MaxDepth + 1) :
        /\ i <= Len(stack[t])
        /\ stack[t][i].cb = cb
        /\ stack[t][i].obj # NoObj
        /\ pay(stack[t][i].obj) = q}

\* C1: for every object the borrows handed out by borrow, borrow_mut and
\* method dispatch are one exclusive borrow and no shared one, or no
\* exclusive borrow and any number of shared ones; the same holds of the
\* references to a payload that the running methods were given.
C1_BorrowExclusion ==
    /\ \A o \in Objects :
          \/ ExclusiveOut(o) <= 1 /\ SharedOut(o) = 0
          \/ ExclusiveOut(o) = 0
    /\ \A q \in Payloads :
          \/ Cardinality(PayloadFrames(q, "add")) <= 1
                /\ Cardinality(PayloadFrames(q, "get")) = 0
          \/ Cardinality(PayloadFrames(q, "add")) = 0

\* Two shared borrows of X are out (one held by the host, one by a running
\* read-only method) and a request for an exclusive one was just refused.
C1_Witness ==
    /\ refs["X"] >= 1
    /\ Cardinality(FramesOn("X", "ref")) >= 1
    /\ last = Result("borrow_mut", "X", "UserDataBorrowMutError")

\* A step that is a typed access to o through the handle or a method call.
AccessStep(o) ==
    \E p \in push_userdata_ref(o) :
        \/ \E T \in TypeIds : borrow(o, T, p) \/ borrow_mut(o, T, p) \/ take(o, T, p)
        \/ \E ok \in BOOLEAN : box_method(LuaOf(o), o, ok, p)
        \/ \E ok \in BOOLEAN : box_method_mut(LuaOf(o), o, ok, p)

\* C2 as stated: once the payload of an object was taken, the object stays
\* without payload, no borrow of it is handed out again, and every borrow,
\* borrow_mut, take and method call on it fails with TypeMismatch or the
\* destructed error.
C2_AsStated ==
    [][\A o \in Objects :
          ~attached[o] =>
             /\ ~attached'[o]
             /\ Outstanding(o)' = 0
             /\ AccessStep(o) => last'.res \in DestructedErrors]_vars

\* C2 (amended): once the payload of an object was taken, the object stays
\* without payload, no borrow of it is handed out again, and every borrow,
\* borrow_mut, take and method call on it fails: with TypeMismatch or the
\* destructed error, or, for a mutable method that is called while it is
\* already running, with RecursiveMutCallback.
C2_TakenForGood ==
    [][\A o \in Objects :
          ~attached[o] =>
             /\ ~attached'[o]
             /\ Outstanding(o)' = 0
             /\ AccessStep(o) =>
                   \/ last'.res \in DestructedErrors
                   \/ /\ last'.res = "RecursiveMutCallback"
                      /\ last'.op = "add"
                      /\ busy[LuaOf(o)]["add"]]_vars

\* X was taken, and a call of the mutable method on X, made while the method
\* is running on Y, was refused as a recursive call.
C2_Witness ==
    /\ ~attached["X"]
    /\ ty["X"] = DestructedUserdata
    /\ last = Result("add", "X", "RecursiveMutCallback")
    /\ Cardinality(FramesOn("Y", "mut")) = 1

\* C3: take<T> on a live object succeeds exactly when the type is T and no
\* borrow of the object is out; with a borrow out it fails with the
\* borrow-mut error, with another type with TypeMismatch, and a failed take
\* changes nothing but the reported result.
C3_TakeFailures ==
    [][\A o \in HostObjects, T \in TypeIds : \A p \in push_userdata_ref(o) :
          (attached[o] /\ take(o, T, p)) =>
             /\ last'.res = (IF ty[o] # T THEN "UserDataTypeMismatch"
                             ELSE IF Outstanding(o) > 0 THEN "UserDataBorrowMutError"
                             ELSE "Ok")
             /\ (last'.res = "Ok") = ~attached'[o]
             /\ last'.res # "Ok" =>
                   UNCHANGED <<kind, futures, meta, registry, ty, attached, cell, inner, val, applied,
                               refs, muts, stack, busy, top, uv>>]_vars

\* A take of X was refused while a method is running on X.
C3_Witness ==
    /\ last = Result("take", "X", "UserDataBorrowMutError")
    /\ Cardinality(FramesOn("X", "ref")) + Cardinality(FramesOn("X", "mut")) >= 1
    /\ refs["X"] = 0 /\ muts["X"] = 0

Wrappers == {RcRefCell, ArcMutex, ArcRwLock}
ReadBlocked(o) ==
    /\ ty[o] \in Wrappers
    /\ IF ty[o] = ArcMutex THEN inner[pay(o)] # 0 ELSE inner[pay(o)] < 0
WriteBlocked(o) ==
    /\ ty[o] \in Wrappers
    /\ inner[pay(o)] # 0

AllButLast == <<kind, futures, meta, registry, ty, attached, cell, inner, val, applied, refs, muts, stack, busy, top, uv>>

\* C5 as stated: a method call on an object whose payload is locked or
\* borrowed in a conflicting way returns the borrow-conflict error.
C5_AsStated ==
    [][\A t \in Threads : \A o \in ObjectsOf(t), ok \in BOOLEAN :
          \A p \in push_userdata_ref(o) :
             /\ (ReadBlocked(o) /\ box_method(t, o, ok, p)) =>
                   last'.res = "UserDataBorrowError"
             /\ (WriteBlocked(o) /\ box_method_mut(t, o, ok, p)) =>
                   last'.res = "UserDataBorrowMutError"]_vars

\* C5 (amended): a method call on an object whose payload is locked or
\* borrowed in a conflicting way never waits: the call can always be taken,
\* it returns an error and changes nothing; the error is the borrow-conflict
\* error, except that a mutable method called while it is already running in
\* the same instance reports RecursiveMutCallback before it tries the lock.
C5_NeverWaits ==
    /\ [][\A t \in Threads : \A o \in ObjectsOf(t), ok \in BOOLEAN :
            \A p \in push_userdata_ref(o) :
               /\ (ReadBlocked(o) /\ box_method(t, o, ok, p)) =>
                     /\ last'.res = "UserDataBorrowError"
                     /\ UNCHANGED AllButLast
               /\ (WriteBlocked(o) /\ box_method_mut(t, o, ok, p)) =>
                     /\ last'.res = (IF busy[t]["add"] THEN "RecursiveMutCallback"
                                     ELSE "UserDataBorrowMutError")
                     /\ UNCHANGED AllButLast]_vars
    /\ [](\A t \in Threads : \A o \in ObjectsOf(t) : \A p \in push_userdata_ref(o) :
               /\ ReadBlocked(o) => ENABLED box_method(t, o, TRUE, p)
               /\ WriteBlocked(o) => ENABLED box_method_mut(t, o, TRUE, p))

\* Thread 2 is inside the mutable method on Z, holding the Mutex, and the
\* call of the mutable method on X by thread 1 came back with the conflict.
C5_Witness ==
    /\ kind = ArcMutex
    /\ Len(stack[2]) = 1 /\ stack[2][1].cb = "add" /\ stack[2][1].obj = "Z"
    /\ Len(stack[1]) = 0
    /\ last = Result("add", "X", "UserDataBorrowMutError")

\* C6: with a Mutex-guarded payload shared by the objects of two instances,
\* at most one method activation holds the payload at a time and it holds
\* the lock; the payload's value is the number of completed mutations (no
\* update is lost); a call that fails leaves the payload as it was.
C6_MutexSerializes ==
    /\ [](kind = ArcMutex =>
            \A q \in Payloads :
               /\ val[q] = applied[q]
               /\ Cardinality(PayloadFrames(q, "add") \cup PayloadFrames(q, "get")) <= 1
               /\ PayloadFrames(q, "add") \cup PayloadFrames(q, "get") # {} =>
                     inner[q] = -1)
    /\ [][kind = ArcMutex =>
            \A t \in Threads : \A o \in ObjectsOf(t), ok \in BOOLEAN :
               \A p \in push_userdata_ref(o) :
                  (box_method_mut(t, o, ok, p) /\ last'.res # "entered") =>
                      UNCHANGED <<val, applied, inner, stack>>]_vars

\* Thread 2 has read the payload inside the mutable method on Z and not yet
\* written it, and thread 1's call on X was refused.
C6_Witness ==
    /\ kind = ArcMutex
    /\ Len(stack[2]) = 1 /\ stack[2][1].cb = "add" /\ stack[2][1].pc = 1
    /\ Len(stack[1]) = 0
    /\ inner[1] = -1
    /\ last = Result("add", "X", "UserDataBorrowMutError")

\* The activations of callback cb on thread t.
Activations(t, cb) ==
    {i \in 1 .. (MaxDepth + 1) : i <= Len(stack[t]) /\ stack[t][i].cb = cb}

\* C7 as stated: a mutable callback invoked while an activation of the same
\* closure is running fails with RecursiveMutCallback.
C7_AsStated ==
    [][\A t \in Threads :
          /\ \A ok \in BOOLEAN :
                (busy[t]["fmut"] /\ box_function_mut(t, ok)) =>
                    last'.res = "RecursiveMutCallback"
          /\ \A f \in Fronts(t), ok \in BOOLEAN : \A p \in Pushed(f) :
                (busy[t]["add"] /\ box_method_mut(t, f, ok, p)) =>
                    last'.res = "RecursiveMutCallback"]_vars

\* C7 (amended): a mutable callback invoked while an activation of the same
\* closure is running does not enter the closure again and changes nothing;
\* it fails with RecursiveMutCallback, except that a method callback whose
\* self argument is missing or not a userdata fails with the conversion
\* error, which it checks first.  No closure has two activations at a time.
C7_NoReentry ==
    /\ [][\A t \in Threads :
            /\ \A ok \in BOOLEAN :
                  (busy[t]["fmut"] /\ box_function_mut(t, ok)) =>
                      /\ last'.res = "RecursiveMutCallback"
                      /\ UNCHANGED AllButLast
            /\ \A f \in Fronts(t), ok \in BOOLEAN : \A p \in Pushed(f) :
                  (busy[t]["add"] /\ box_method_mut(t, f, ok, p)) =>
                      /\ last'.res = (IF f \in Objects THEN "RecursiveMutCallback"
                                      ELSE "FromLuaConversionError")
                      /\ UNCHANGED AllButLast]_vars
    /\ [](\A t \in Threads, cb \in MutCallbacks :
            /\ Cardinality(Activations(t, cb)) <= 1
            /\ busy[t][cb] = (Activations(t, cb) # {}))

\* The mutable function is running and its nested call was refused.
C7_Witness ==
    /\ Activations(1, "fmut") # {}
    /\ busy[1]["fmut"]
    /\ last = Result("fmut", NoObj, "RecursiveMutCallback")

\* C8: every operation of the handle and every method callback that fails
\* before the closure leaves the stack top where it was, and a callback that
\* returns from the closure leaves it where it was when the callback was
\* called.
C8_StackTopRestored ==
    [][\A t \in Threads :
          /\ Len(stack'[t]) = Len(stack[t]) => top'[t] = top[t]
          /\ Len(stack'[t]) < Len(stack[t]) => top'[t] = Top(t).entry]_vars

\* Inside a method (the reference to self is on the stack) slot 1 was set
\* through the inline path.
C8_Witness ==
    /\ Len(stack[1]) = 1
    /\ top[1] = 1
    /\ last = Result("set_nth_user_value", "X", "Ok")
    /\ uv["X"].inline[1] = "a"
    /\ ~uv["X"].hasTable

\* C9: no operation panics; is<T> answers true or false in every state.
C9_NoPanic ==
    /\ last.res # "panic"
    /\ last.op = "is" => last.res \in {"true", "false"}

\* C10: on a live object is<T> answers true exactly when the stored type
\* identity is T (false for every other type, a wrapper of T included),
\* whatever borrows are out, and it changes nothing.
C10_IsExactAndPure ==
    [][\A o \in HostObjects, T \in TypeIds : \A p \in push_userdata_ref(o) :
          (attached[o] /\ is(o, T, p)) =>
             /\ last'.res = (IF ty[o] = T THEN "true" ELSE "false")
             /\ UNCHANGED AllButLast]_vars

\* X is a wrapper around T and exclusively borrowed, and is answered true
\* (for the wrapper type: it is the only type is answers true for).
C10_Witness ==
    /\ kind = RcRefCell
    /\ muts["X"] = 1
    /\ attached["X"]
    /\ last = Result("is", "X", "true")

\* C11: on a live object borrow<T> and borrow_mut<T> succeed only for the
\* exact stored type; asked for any other type (T on a wrapper of T
\* included) they fail with TypeMismatch, also while the object is borrowed,
\* and change nothing.
C11_ExactTypeFirst ==
    [][\A o \in HostObjects, T \in TypeIds : \A p \in push_userdata_ref(o) :
          attached[o] =>
             /\ borrow(o, T, p) =>
                   /\ last'.res = "Ok" => T = ty[o]
                   /\ T # ty[o] =>
                         last'.res = "UserDataTypeMismatch" /\ UNCHANGED AllButLast
             /\ borrow_mut(o, T, p) =>
                   /\ last'.res = "Ok" => T = ty[o]
                   /\ T # ty[o] =>
                         last'.res = "UserDataTypeMismatch" /\ UNCHANGED AllButLast]_vars

\* X is a wrapper of T and exclusively borrowed by the host; a borrow asked
\* with another type was answered TypeMismatch, not with the conflict.
C11_Witness ==
    /\ kind \in Wrappers
    /\ attached["X"]
    /\ muts["X"] = 1
    /\ last = Result("borrow", "X", "UserDataTypeMismatch")

\* The borrows a method callback holds while its closure runs, by the kind
\* of the object: <<borrow of the object's cell, hold on the wrapper>>.
HeldByRead(id) ==
    CASE id = TypeT -> <<"ref", "none">>
      [] id = RcRefCell -> <<"ref", "read">>
      [] id = ArcMutex -> <<"ref", "write">>
      [] id = ArcRwLock -> <<"ref", "read">>
HeldByWrite(id) ==
    CASE id = TypeT -> <<"mut", "none">>
      [] id \in Wrappers -> <<"mut", "write">>

Resolvable == {TypeT} \cup Wrappers

\* Nothing is borrowed from object o and nothing is locked in its payload.
Unborrowed(o) == attached[o] /\ cell[o] = 0 /\ inner[pay(o)] = 0

\* C13: with no borrow or lock outstanding on the object, the read-only method
\* "get" called with good arguments is entered whatever the ownership kind of
\* the object (exact T, Rc<RefCell<T>>, Arc<Mutex<T>>, Arc<RwLock<T>>), the
\* call can always be made, and its result is the payload's value whatever the
\* kind.
C13_ReadOnlyDispatchUniform ==
    /\ [][\A o \in {"X", "Y"} : \A p \in push_userdata_ref(o) :
            /\ (Unborrowed(o) /\ ty[o] \in Resolvable /\ box_method(1, o, TRUE, p))
                  => /\ last' = Result("get", o, "entered")
                     /\ Top(1)'.cb = "get" /\ Top(1)'.obj = o
            /\ (Len(stack[1]) > 0 /\ Top(1).cb = "get" /\ callback_return(1, TRUE))
                  => last'.value = val[pay(Top(1).obj)]]_vars
    /\ [](\A o \in {"X", "Y"} :
            (Unborrowed(o) /\ ty[o] \in Resolvable /\ CanCall(1)
               /\ Len(stack[1]) < DepthBound(1))
            => \E p \in push_userdata_ref(o) : ENABLED box_method(1, o, TRUE, p))

\* "get" has returned the value 1 from an object of a wrapper kind.
C13_Witness ==
    /\ kind \in Wrappers
    /\ stack[1] = << >>
    /\ last = [Result("return", "X", "Ok") EXCEPT !.value = 1]

\* C14: when "set" returns successfully the payload holds the argument it was
\* called with, whatever the ownership kind, and a "get" that returns
\* successfully returns what the payload holds: with no mutation in between,
\* get returns the argument of set.
C14_SetThenGet ==
    [][/\ (Len(stack[1]) > 0 /\ Top(1).cb = "set" /\ callback_return(1, TRUE))
            => /\ val[pay(Top(1).obj)] = Top(1).tmp
               /\ val' = val
               /\ last' = Result("return", Top(1).obj, "Ok")
       /\ (Len(stack[1]) > 0 /\ Top(1).cb = "get")
            => \A ok \in BOOLEAN : callback_return(1, ok) => val' = val
       /\ (last = Result("return", last.obj, "Ok") /\ last.value = NoValue
             /\ \E p \in push_userdata_ref(last.obj) : box_method(1, last.obj, TRUE, p))
            => (last'.res = "entered" => val' = val)
       /\ (Len(stack[1]) > 0 /\ Top(1).cb = "get" /\ callback_return(1, TRUE))
            => last'.value = val'[pay(Top(1).obj)]]_vars

\* "set" has stored 1 in an object of a wrapper kind and returned.
C14_Witness ==
    /\ kind \in Wrappers
    /\ stack[1] = << >>
    /\ val[pay("X")] = 1
    /\ last = Result("return", "X", "Ok")

\* The indices set_nth_user_value and get_nth_user_value accept.
ValidIndex(n) == 1 <= n /\ n <= U16_MAX

\* C15: set_nth_user_value and get_nth_user_value accept exactly the indices
\* 1..65535. Index 0 and every index above 65535 fail with the
\* index-out-of-bounds error (Error::RuntimeError in the code) and change
\* nothing: no user value, no payload, no stack top. An index in range never
\* gives that error, and on a live object the call succeeds.
C15_IndexBounds ==
    [][\A n \in Indices : \A p \in push_userdata_ref("X") :
         /\ \A v \in Values : set_nth_user_value("X", n, v, p) =>
               /\ ~ValidIndex(n) => last'.res = "RuntimeError" /\ UNCHANGED AllButLast
               /\ ValidIndex(n) => last'.res # "RuntimeError"
               /\ (ValidIndex(n) /\ p.err = "") => last'.res = "Ok"
         /\ get_nth_user_value("X", n, p) =>
               /\ ~ValidIndex(n) => last'.res = "RuntimeError" /\ UNCHANGED AllButLast
               /\ ValidIndex(n) => last'.res # "RuntimeError"
               /\ (ValidIndex(n) /\ p.err = "") => last'.res \in Values]_vars

\* Index 65536 was refused on an object that holds a value in its last slot.
C15_Witness ==
    /\ nth_user_value("X", U16_MAX) = "a"
    /\ last = Result("get_nth_user_value", "X", "RuntimeError")

\* C16: after a successful set_nth_user_value(n, v), get_nth_user_value(n)
\* reads v and reads for every other index m what it read before, on both
\* sides of the boundary between the inline slots 1..7 and the overflow table
\* (index n >= 8 at key n - 7); get_nth_user_value returns what is stored and
\* stores nothing.
C16_IndexedReadBack ==
    [][\A n \in Indices : \A p \in push_userdata_ref("X") :
         /\ \A v \in Values :
               (set_nth_user_value("X", n, v, p) /\ last'.res = "Ok") =>
                  /\ nth_user_value("X", n)' = v
                  /\ \A m \in Indices : (ValidIndex(m) /\ m # n) =>
                         nth_user_value("X", m)' = nth_user_value("X", m)
                  /\ n >= USER_VALUE_MAXSLOT =>
                         uv'["X"].tab[IntKey(n - 7)] = v
         /\ (ValidIndex(n) /\ p.err = "" /\ get_nth_user_value("X", n, p)) =>
               /\ last'.res = nth_user_value("X", n)
               /\ uv' = uv]_vars

\* Values are stored on both sides of the boundary, slot 1 was cleared again,
\* and the last inline slot has been read back.
C16_Witness ==
    /\ nth_user_value("X", 7) = "a"
    /\ nth_user_value("X", 8) = "a"
    /\ nth_user_value("X", U16_MAX) = "a"
    /\ nth_user_value("X", 1) = Nil
    /\ last = Result("get_nth_user_value", "X", "a")

\* C17: named and indexed user values do not share keys, also for the name
\* "1" and the index stored at the overflow table's key 1. A successful
\* set_named_user_value(s, v) makes get_named_user_value(s) read v and leaves
\* what get_nth_user_value(n) reads unchanged for every n; set_nth_user_value
\* leaves what get_named_user_value(s) reads unchanged; get_named_user_value
\* returns what is stored and stores nothing.
C17_NamedApartFromIndexed ==
    [][\A name \in Names : \A p \in push_userdata_ref("X") :
         /\ \A v \in Values :
               (set_named_user_value("X", name, v, p) /\ last'.res = "Ok") =>
                  /\ named_user_value("X", name)' = v
                  /\ \A n \in Indices : ValidIndex(n) =>
                         nth_user_value("X", n)' = nth_user_value("X", n)
         /\ \A n \in Indices, v \in Values :
               set_nth_user_value("X", n, v, p) =>
                  named_user_value("X", name)' = named_user_value("X", name)
         /\ (p.err = "" /\ get_named_user_value("X", name, p)) =>
               /\ last'.res = named_user_value("X", name)
               /\ uv' = uv]_vars

\* The name "1" was cleared while index 8, kept at the table's key 1, holds
\* a value.
C17_Witness ==
    /\ named_user_value("X", "1") = Nil
    /\ nth_user_value("X", USER_VALUE_MAXSLOT) = "a"
    /\ last = Result("set_named_user_value", "X", "Ok")

\* C18: a successful take leaves every indexed and every named user value of
\* the object stored as it was.
C18_TakeKeepsUserValues ==
    [][\A T \in TypeIds : \A p \in push_userdata_ref("X") :
         (take("X", T, p) /\ last'.res = "Ok") =>
            /\ \A n \in Indices : ValidIndex(n) =>
                   nth_user_value("X", n)' = nth_user_value("X", n)
            /\ \A name \in Names :
                   named_user_value("X", name)' = named_user_value("X", name)
            /\ uv' = uv]_vars

\* The payload was taken out of an object holding an inline, an overflow and
\* a named user value.
C18_Witness ==
    /\ ~attached["X"]
    /\ last = Result("take", "X", "Ok")
    /\ nth_user_value("X", 1) = "a"
    /\ nth_user_value("X", USER_VALUE_MAXSLOT) = "a"
    /\ named_user_value("X", "1") = "a"

\* The names the claim calls reserved: "__gc", "__metatable" and every name
\* whose first six characters are "__mlua".
Reserved(name) ==
    \/ name = <<"_", "_", "g", "c">>
    \/ name = <<"_", "_", "m", "e", "t", "a", "t", "a", "b", "l", "e">>
    \/ /\ Len(name) >= 6
       /\ <<name[1], name[2], name[3], name[4], name[5], name[6]>>
             = <<"_", "_", "m", "l", "u", "a">>

\* C19: MetaMethod::validate refuses with MetaMethodRestricted exactly the
\* names "__gc", "__metatable" and the names starting with "__mlua", and
\* hands every other name back unchanged; a lookup through the metatable view
\* is refused for exactly those keys.
C19_ValidateExact ==
    [][\A key \in Keys : metatable_get(key) =>
          /\ validate(key).err = (IF Reserved(key) THEN "MetaMethodRestricted" ELSE "")
          /\ ~Reserved(key) => validate(key).name = key
          /\ (last'.res = "MetaMethodRestricted") <=> Reserved(key)
          /\ ~Reserved(key) => last'.res = (IF key \in meta.table THEN "function" ELSE Nil)]_vars

\* A lookup in a metatable that holds "__index" and "__eq" was refused.
C19_Witness ==
    /\ meta.built
    /\ meta.table = {INDEX, EQ}
    /\ last = Result("metatable_get", "X", "MetaMethodRestricted")

\* T has declared a meta-method, meta-function or meta-field under "__gc" or
\* "__metatable".
DeclaredReserved ==
    \E n \in Range(meta.meta_methods) \cup Range(meta.meta_fields) : n \in {GC, METATABLE}

\* C20: a registration under "__gc" or "__metatable" made through any entry
\* point always fails with MetaMethodRestricted when the metatable of the host
\* type is built, whatever the host type (T or a wrapper of T), and the
\* reserved entry is never installed in the metatable.
C20_ReservedAlwaysFails ==
    /\ [][(kind \in {TypeT} \cup Wrappers /\ DeclaredReserved /\ register_userdata_metatable)
            => (last'.res = "MetaMethodRestricted" /\ ~meta'.built)]_vars
    /\ [](GC \notin meta.table /\ METATABLE \notin meta.table)

\* The index and new-index hook names.
IndexHooks == {<<"_", "_", "i", "n", "d", "e", "x">>,
               <<"_", "_", "n", "e", "w", "i", "n", "d", "e", "x">>}

\* C21: on the metatable view, get, set and contains with a reserved name
\* fail with MetaMethodRestricted; set with "__index" or "__newindex" fails
\* with MetaMethodRestricted for every value, while get and contains of
\* those two names are answered; every other set succeeds; a rejected set
\* leaves the metatable as it was.
C21_ViewRestrictions ==
    [][/\ \A key \in ViewKeys :
            /\ metatable_get(key) =>
                  /\ Reserved(key) => last'.res = "MetaMethodRestricted"
                  /\ key \in IndexHooks =>
                        last'.res = (IF key \in meta.table THEN "function" ELSE Nil)
                  /\ meta' = meta
            /\ metatable_contains(key) =>
                  /\ Reserved(key) => last'.res = "MetaMethodRestricted"
                  /\ key \in IndexHooks =>
                        last'.res = (IF key \in meta.table THEN "true" ELSE "false")
                  /\ meta' = meta
       /\ \A key \in ViewKeys, v \in SetValues :
            metatable_set(key, v) =>
               /\ (Reserved(key) \/ key \in IndexHooks) <=> last'.res = "MetaMethodRestricted"
               /\ last'.res = "MetaMethodRestricted" => meta' = meta
               /\ last'.res # "MetaMethodRestricted" => last'.res = "Ok"]_vars

\* A set was refused on a metatable that holds "__index".
C21_Witness ==
    /\ meta.built
    /\ INDEX \in meta.table
    /\ ADD \in meta.table
    /\ last = Result("metatable_set", "X", "MetaMethodRestricted")

\* C22: equals answers true for two handles of the same object whatever the
\* equality hook would answer (the hook is not consulted); for two different
\* live objects it answers what the hook answers when called with
\* (self, other) if both have the same metatable (same type, same runtime
\* instance) and that metatable has an equality hook, and false otherwise.
\* Nothing but the result is changed.
C22_Equality ==
    [][\A a \in {"X", "Y"}, b \in {"X", "Y"} : \A h \in EqHooks(a, b) :
         \A pa \in push_userdata_ref(a), pb \in push_userdata_ref(b) :
            equals(a, b, pa, pb, h) =>
               /\ a = b => last'.res = "true"
               /\ (a # b /\ pa.err = "" /\ pb.err = "") =>
                     last'.res = (IF ty[a] = ty[b] /\ LuaOf(a) = LuaOf(b)
                                     /\ ty[a] \in {TypeT} \cup Wrappers
                                  THEN h[<<a, b>>] ELSE "false")
               /\ UNCHANGED AllButLast]_vars

\* Y is a live object of another type than X, and comparing them gave false.
C22_Witness ==
    /\ attached["X"] /\ attached["Y"]
    /\ ty["X"] # ty["Y"]
    /\ last = Result("equals", "X", "false")

\* Object o has not been destructed.
Live(o) == ty[o] # DestructedUserdata

\* C23: in one runtime instance the metatable of a type is built once, on the
\* first use of the type; every later object of that type in that instance
\* gets that same metatable, which get_metatable returns; creating another
\* object of the type neither builds nor replaces it; objects of different
\* runtime instances never have the same metatable.
C23_OneMetatablePerInstanceAndType ==
    /\ [](/\ \A i \in Threads, id \in TypeIds : registry.builds[i][id] <= 1
          /\ \A a \in Objects, b \in Objects : (Live(a) /\ Live(b)) =>
                /\ (LuaOf(a) = LuaOf(b) /\ ty[a] = ty[b]) => registry.mt[a] = registry.mt[b]
                /\ LuaOf(a) # LuaOf(b) => registry.mt[a] # registry.mt[b])
    /\ [][/\ \A o \in Objects : \A p \in push_userdata_ref(o) :
                (p.err = "" /\ get_metatable(o, p)) =>
                   \A b \in Objects : Live(b) =>
                      /\ (LuaOf(o) = LuaOf(b) /\ ty[o] = ty[b]) => last'.value = registry.mt[b]
                      /\ LuaOf(o) # LuaOf(b) => last'.value # registry.mt[b]
          /\ \A o \in {"Y", "Z"}, id \in TypeIds : create_userdata(o, id) =>
               IF registry.tables[LuaOf(o)][id] # 0
               THEN /\ registry'.tables = registry.tables
                    /\ registry'.builds = registry.builds
                    /\ registry'.mt[o] = registry.tables[LuaOf(o)][id]
               ELSE /\ registry'.builds[LuaOf(o)][id] = 1
                    /\ \A b \in Objects \ {o} : registry'.mt[o] # registry.mt[b]]_vars

\* Both instances have built a second metatable, for U, and the one of
\* instance 2 was fetched from Z.
C23_Witness ==
    /\ kind # TypeU
    /\ ty["Y"] = TypeU /\ ty["Z"] = TypeU
    /\ registry.builds[1][TypeU] = 1 /\ registry.builds[2][TypeU] = 1
    /\ last = [Result("get_metatable", "Z", "Ok") EXCEPT !.value = registry.mt["Z"]]

\* The keys T registered a field getter or a method under, and those it
\* registered a field setter under.
ReadKeys == Range(meta.field_getters) \cup Range(meta.methods) \cup Range(meta.async_methods)
WriteKeys == Range(meta.field_setters)

\* What one index access or index write answers, given what T registered.
IndexLookupOrder ==
    (kind \in {TypeT} \cup Wrappers =>
         \A key \in FieldNames :
            /\ index(key) =>
                  /\ key \in Range(meta.field_getters) => last'.res = "field_getter"
                  /\ key \in ReadKeys \ Range(meta.field_getters) => last'.res = "method"
                  /\ last'.res = "host_index" => (key \notin ReadKeys /\ INDEX \in Range(meta.meta_methods))
                  /\ (key \notin ReadKeys /\ INDEX \in Range(meta.meta_methods))
                        => last'.res = "host_index"
            /\ newindex(key) =>
                  /\ key \in WriteKeys => last'.res = "field_setter"
                  /\ last'.res = "host_newindex" =>
                        (key \notin WriteKeys /\ NEWINDEX \in Range(meta.meta_methods))
                  /\ (key \notin WriteKeys /\ NEWINDEX \in Range(meta.meta_methods))
                        => last'.res = "host_newindex")

C25_WrapperRegistersAllOfT ==
    kind \in Wrappers => declarations(kind) = Declared(meta)

\* C26: running the initializer of a meta-field registered under "__index"
\* or "__newindex" fails with MetaMethodTypeError when the closure yields a
\* value that is not nil, a table or a function; for nil, a table or a
\* function, and under every other name with any value, the value the
\* closure yields is returned unchanged.
C26_IndexHookValueTypes ==
    [][\A i \in 1..MaxDecl, outcome \in ValueTypes :
          run_meta_field(i, outcome) =>
             IF meta.meta_fields[i] \in {INDEX, NEWINDEX}
                /\ outcome \in {"boolean", "integer", "string"}
             THEN last'.res = "MetaMethodTypeError"
             ELSE last'.res = outcome]_vars

\* The initializer of a meta-field under "__newindex" was run with a string.
C26_Witness ==
    /\ meta.meta_fields = <<NEWINDEX>>
    /\ last = Result("meta_field", NoObj, "MetaMethodTypeError")

\* The ownership kinds that match o: the types a typed access to o accepts.
MatchingKinds(o) ==
    {T \in TypeIds : \A p \in push_userdata_ref(o) : inspect(p, T) = "match"}

\* C27: a live object matches exactly one ownership kind, the one it was
\* created with, in every reachable state, and no borrow, dispatch,
\* user-value, metatable or equality operation changes the kind of an object
\* that stays live.
C27_KindFixedAtCreation ==
    /\ [](\A o \in Objects : Live(o) => MatchingKinds(o) = {kind})
    /\ [][\A o \in Objects : (Live(o) /\ ty'[o] # DestructedUserdata) => ty'[o] = ty[o]]_vars

\* A wrapper object with a borrow handed out, a user value set and a method
\* call made on it is still of its kind.
C27_Witness ==
    /\ kind = ArcRwLock
    /\ Live("X")
    /\ refs["X"] > 0
    /\ uv["X"] # NoUserValues
    /\ last.op = "get"
    /\ MatchingKinds("X") = {ArcRwLock}

\* The two errors that report a borrow conflict.
BorrowConflicts == {"UserDataBorrowError", "UserDataBorrowMutError"}

\* What a failed call must leave alone.
BorrowState == <<cell, inner, refs, muts, val, applied, attached, ty, stack, busy>>

\* C28: a borrow, a borrow_mut or a method dispatch that reports a borrow
\* conflict changes nothing: the borrows handed out, the flag of the
\* object's cell, the lock state of the wrapper and the payload value are
\* the same after the failed call as before it, and no closure was entered.
C28_FailedBorrowChangesNothing ==
    [][\A T \in HostAsks, ok \in BOOLEAN : \A p \in push_userdata_ref("X") :
          /\ (borrow("X", T, p) /\ last'.res \in BorrowConflicts) => UNCHANGED BorrowState
          /\ (borrow_mut("X", T, p) /\ last'.res \in BorrowConflicts) => UNCHANGED BorrowState
          /\ (box_method(1, "X", ok, p) /\ last'.res \in BorrowConflicts)
                => UNCHANGED BorrowState
          /\ (box_method_mut(1, "X", ok, p) /\ last'.res \in BorrowConflicts)
                => UNCHANGED BorrowState]_vars

\* The host holds two shared borrows of a Mutex wrapper and its borrow_mut
\* was refused.
C28_Witness ==
    /\ kind = ArcMutex
    /\ refs["X"] = 2
    /\ cell["X"] = 2
    /\ last = Result("borrow_mut", "X", "UserDataBorrowMutError")

\* The places in the rest of the traversal whose entry the iterator hands
\* out: one that fails to convert, or one under a name that is not reserved.
HandedOut(rest, converts) ==
    {i \in 1 .. Len(rest) : ~converts[rest[i]] \/ ~Reserved(rest[i])}

PairsNextYields ==
    \A converts \in [PairKeys -> BOOLEAN] :
       pairs_next(converts) =>
          LET rest == meta.pairs.rest
              out == HandedOut(rest, converts)
          IN  IF out = {}
              THEN last'.res = "None" /\ meta'.pairs.rest = << >>
              ELSE LET i == CHOOSE k \in out : \A m \in out : k <= m IN
                   /\ meta'.pairs.item = rest[i]
                   /\ meta'.pairs.rest = SubSeq(rest, i + 1, Len(rest))
                   /\ last'.res = (IF converts[rest[i]] THEN "Some(Ok)" ELSE "Some(Err)")
                   /\ last'.res = "Some(Ok)" => ~Reserved(meta'.pairs.item)

\* C29: each call of next on the pairs of a metatable view hands out the
\* next entry of the traversal that either fails to convert (as an error
\* item, the traversal going on behind it) or has a key that is not
\* reserved; entries under "__gc", "__metatable" or a name with the internal
\* prefix that convert are passed over, and the iteration ends only when no
\* entry is left to hand out.
C29_PairsSkipReserved == [][PairsNextYields]_vars

\* The traversal handed out "__eq" as its second entry, with two entries
\* still to visit.
C29_Witness ==
    /\ meta.pairs.live
    /\ meta.pairs.item = EQ
    /\ Len(meta.pairs.rest) = 2
    /\ last = Result("pairs_next", "X", "Some(Ok)")

\* The call of the async method holds nothing when it has come back.
AsyncCallHoldsNothing ==
    \A f \in {"missing", "X"}, ok \in BOOLEAN : \A p \in Pushed(f) :
       box_async_method(1, f, ok, p) =>
          /\ UNCHANGED <<cell, inner, refs, muts, val, applied, stack, busy, top>>
          /\ last'.res = "pending" => futures'["X"] = val[pay("X")]

\* With the future pending and nothing else holding X, exclusive access to
\* X is granted.
PendingFutureBlocksNothing ==
    \A p \in push_userdata_ref("X") :
       (futures["X"] # NoValue /\ Unborrowed("X") /\ Live("X")) =>
          /\ borrow_mut("X", kind, p) => last'.res = "Ok"
          /\ take("X", kind, p) => last'.res = "Ok"
          /\ box_method_mut(1, "X", TRUE, p) => last'.res = "entered"

\* The future works on its own T.
FutureOwnsItsClone ==
    /\ future_write("X") => UNCHANGED <<val, applied, cell, inner>>
    /\ future_ready("X") => UNCHANGED <<val, applied, cell, inner>>

\* C30: an async method gets a clone of the payload; the borrow or lock
\* taken to make the clone is given back before the callback comes back with
\* the future, so while the future is pending borrow_mut, take and the
\* dispatch of a mutable method on the object succeed, and what the async
\* method does to its clone never changes the payload of the object.
C30_AsyncMethodOwnsClone ==
    /\ [][AsyncCallHoldsNothing]_vars
    /\ [][PendingFutureBlocksNothing]_vars
    /\ [][FutureOwnsItsClone]_vars
    /\ [](\A o \in Objects : cell[o] # 0 => Outstanding(o) > 0)

\* The future of an async method on a Mutex wrapper is pending and has
\* changed its clone; the payload is as it was and the host was handed an
\* exclusive borrow.
C30_Witness ==
    /\ kind = ArcMutex
    /\ futures["X"] = 1
    /\ val[pay("X")] = 0
    /\ muts["X"] = 1
    /\ last = Result("borrow_mut", "X", "Ok")

\* What the reads and writes of user values do to the overflow table of X.
LazyOverflowTable ==
    \A p \in push_userdata_ref("X") :
       /\ \A n \in Indices :
             get_nth_user_value("X", n, p) =>
                /\ uv' = uv
                /\ (p.err = "" /\ ValidIndex(n) /\ uv["X"] = NoUserValues) => last'.res = Nil
       /\ \A name \in Names :
             get_named_user_value("X", name, p) =>
                /\ uv' = uv
                /\ (p.err = "" /\ ~uv["X"].hasTable) => last'.res = Nil
       /\ \A n \in Indices, v \in Values :
             set_nth_user_value("X", n, v, p) =>
                uv'["X"].hasTable =
                   (uv["X"].hasTable
                      \/ (last'.res = "Ok" /\ n >= USER_VALUE_MAXSLOT))
       /\ \A name \in Names, v \in Values :
             set_named_user_value("X", name, v, p) =>
                uv'["X"].hasTable = (uv["X"].hasTable \/ last'.res = "Ok")

\* C31: get_nth_user_value and get_named_user_value store nothing; on a slot
\* that was never set they return nil and leave the object without its
\* overflow table, which comes into being only with the first successful
\* write to an index past the inline slots or to a named value.
C31_ReadsNeverWrite == [][LazyOverflowTable]_vars

\* An inline slot is set and a name that was never written was read: it read
\* nil and the object still has no overflow table.
C31_Witness ==
    /\ uv["X"].inline[1] = "a"
    /\ ~uv["X"].hasTable
    /\ last = Result("get_named_user_value", "X", Nil)

\* The guard of the closure that returns is given back, a call that does not
\* enter its closure leaves every guard as it was, and a closure that is not
\* running is not refused.
GuardReleasedOnExit ==
    /\ \A ok \in BOOLEAN :
          (Len(stack[1]) > 0 /\ callback_return(1, ok)) =>
             (Top(1).cb \in MutCallbacks => ~busy'[1][Top(1).cb])
    /\ \A f \in Fronts(1), ok \in BOOLEAN : \A p \in Pushed(f) :
          /\ box_method_mut(1, f, ok, p) =>
                /\ last'.res # "entered" => busy' = busy
                /\ Activations(1, "add") = {} => last'.res # "RecursiveMutCallback"
          /\ box_method_mut_set(1, f, ok, p) =>
                /\ last'.res # "entered" => busy' = busy
                /\ Activations(1, "set") = {} => last'.res # "RecursiveMutCallback"
    /\ \A ok \in BOOLEAN :
          box_function_mut(1, ok) =>
             /\ last'.res # "entered" => busy' = busy
             /\ Activations(1, "fmut") = {} => last'.res # "RecursiveMutCallback"

\* C32: the re-entrancy guard of a mutable callback is given back on every
\* exit path: when the activation returns with success or with an error of
\* the host closure, and when the call fails before the closure with a type
\* mismatch, a borrow conflict or an argument conversion error; a call of
\* the callback made while no activation of it is running is never refused
\* with RecursiveMutCallback.
C32_GuardReleasedOnEveryExit == [][GuardReleasedOnExit]_vars

\* The closure of the mutable function failed and returned: its guard is
\* free again.
C32_Witness ==
    /\ stack[1] = << >>
    /\ ~busy[1]["fmut"]
    /\ last = Result("return", NoObj, "CallbackError")

\* The closure of "add" is running on a, and only there.
RunningOn(cb, a) ==
    /\ Activations(1, cb) # {}
    /\ \A i \in Activations(1, cb) : stack[1][i].obj = a

\* C33: the re-entrancy guard belongs to the registered closure, not to the
\* object: while the mutable method "add" is running on one object, a call
\* of "add" on the other object of the same type fails with
\* RecursiveMutCallback, whereas a call of the other mutable method "set" on
\* that object is not refused with RecursiveMutCallback and, the object
\* being free, enters its closure.
C33_GuardPerClosure ==
    [][\A a \in {"X", "Y"}, b \in {"X", "Y"} : \A ok \in BOOLEAN : \A p \in push_userdata_ref(b) :
          (a # b /\ RunningOn("add", a) /\ ~busy[1]["set"]) =>
             /\ box_method_mut(1, b, ok, p) => last'.res = "RecursiveMutCallback"
             /\ box_method_mut_set(1, b, ok, p) =>
                   /\ last'.res # "RecursiveMutCallback"
                   /\ (ok /\ kind \in Resolvable /\ Unborrowed(b)) => last'.res = "entered"]_vars

\* "add" is running on X, and "set" called from inside it on Y was entered.
C33_Witness ==
    /\ Len(stack[1]) = 2
    /\ stack[1][1].cb = "add" /\ stack[1][1].obj = "X"
    /\ stack[1][2].cb = "set" /\ stack[1][2].obj = "Y"
    /\ last = Result("set", "Y", "entered")

\* The activations that hold the wrapper of payload q in the way b.
LockFrames(q, b) ==
    {<<t, i>> \in Threads \X (1 .. MaxDepth + 1) :
        /\ i <= Len(stack[t])
        /\ stack[t][i].obj # NoObj
        /\ pay(stack[t][i].obj) = q
        /\ stack[t][i].innerB = b}

\* The flag of a cell or lock with the given numbers of shared and
\* exclusive holders.
HeldFlag(shared, exclusive) == IF exclusive > 0 THEN 0 - 1 ELSE shared

\* The flags are those of the borrows held right now, no more.
NothingLeftBehind ==
    /\ \A o \in Objects : cell[o] = HeldFlag(SharedOut(o), ExclusiveOut(o))
    /\ \A q \in Payloads :
          inner[q] = HeldFlag(Cardinality(LockFrames(q, "read")),
                              Cardinality(LockFrames(q, "write")))

\* A dispatch that fails before its closure has given back what it took.
FailedDispatchHoldsNothing ==
    \A f \in Fronts(1), ok \in BOOLEAN : \A p \in Pushed(f) :
       /\ (box_method(1, f, ok, p) /\ last'.res # "entered") => UNCHANGED <<cell, inner, stack>>
       /\ (box_method_mut(1, f, ok, p) /\ last'.res # "entered")
             => UNCHANGED <<cell, inner, stack>>
       /\ (box_method_mut_set(1, f, ok, p) /\ last'.res # "entered")
             => UNCHANGED <<cell, inner, stack>>

\* C34: every borrow and lock a method dispatch takes is given back by the
\* time the dispatch returns: a call that fails after the borrow was taken
\* (argument conversion) or before leaves cell and lock as they were, and
\* at any time the flag of each cell and lock counts exactly the borrows of
\* the activations still running, so that when an activation has returned,
\* with success or with an error, the borrow state and the lock state are
\* those from before its call.
C34_BorrowsReleasedOnReturn ==
    /\ [](NothingLeftBehind)
    /\ [][FailedDispatchHoldsNothing]_vars

\* "add" has run to its end on a Mutex wrapper and returned: nothing is
\* held.
C34_Witness ==
    /\ kind = ArcMutex
    /\ stack[1] = << >>
    /\ applied[pay("X")] = 1
    /\ cell["X"] = 0 /\ inner[pay("X")] = 0
    /\ last = Result("return", "X", "Ok")

\* The first check of a method callback that fails, in the order the claim
\* gives, or "entered" when none does: mutable tells the kind of callback,
\* guarded whether its closure is running, f is the first argument and
\* argsOk tells whether the remaining arguments convert.
FirstFailingCheck(mutable, guarded, f, argsOk) ==
    IF f = "missing" THEN "FromLuaConversionError"
    ELSE IF f = "not_userdata" THEN "FromLuaConversionError"
    ELSE IF mutable /\ guarded THEN "RecursiveMutCallback"
    ELSE IF ty[f] \notin Resolvable THEN "UserDataTypeMismatch"
    ELSE IF mutable /\ (cell[f] # 0 \/ WriteBlocked(f)) THEN "UserDataBorrowMutError"
    ELSE IF ~mutable /\ (cell[f] < 0 \/ ReadBlocked(f)) THEN "UserDataBorrowError"
    ELSE IF ~argsOk THEN "FromLuaConversionError"
    ELSE "entered"

ChecksInOrder ==
    \A f \in Fronts(1), ok \in BOOLEAN : \A p \in Pushed(f) :
       /\ box_method(1, f, ok, p) =>
             /\ last'.res = FirstFailingCheck(FALSE, FALSE, f, ok)
             /\ Len(stack'[1]) > Len(stack[1]) <=> last'.res = "entered"
       /\ box_method_mut(1, f, ok, p) =>
             /\ last'.res = FirstFailingCheck(TRUE, busy[1]["add"], f, ok)
             /\ Len(stack'[1]) > Len(stack[1]) <=> last'.res = "entered"
       /\ box_method_mut_set(1, f, ok, p) =>
             /\ last'.res = FirstFailingCheck(TRUE, busy[1]["set"], f, ok)
             /\ Len(stack'[1]) > Len(stack[1]) <=> last'.res = "entered"

\* C35: a method callback on a live object reports the first failing check
\* in this order: first argument missing, first argument not a userdata
\* (both a conversion error), RecursiveMutCallback (mutable callbacks only),
\* TypeMismatch, borrow conflict, conversion error of the remaining
\* arguments; a call with a borrow conflict and bad arguments reports the
\* borrow conflict; the host closure is entered exactly when no check fails.
C35_ChecksInFixedOrder == [][ChecksInOrder]_vars

\* "get" is running on a Mutex wrapper and a nested "get" was refused with
\* the borrow conflict.
C35_Witness ==
    /\ kind = ArcMutex
    /\ Len(stack[1]) = 1
    /\ Top(1).cb = "get"
    /\ inner[pay("X")] # 0
    /\ last = Result("get", "X", "UserDataBorrowError")

\* A mutable (a read-only) method is executing on o.
MutRunningOn(o) == FramesOn(o, "mut") # {}
ReadRunningOn(o) == FramesOn(o, "ref") # {}

\* C36 as stated: while a mutable method is executing on X every nested
\* read-only or mutable method call on X fails with a borrow conflict;
\* while a read-only method is executing on X a nested mutable call fails
\* and a nested read-only call succeeds unless X is Mutex-guarded, where it
\* fails with a borrow conflict.
C36_AsStated ==
    [][\A ok \in BOOLEAN : \A p \in push_userdata_ref("X") :
          /\ MutRunningOn("X") =>
                /\ box_method(1, "X", ok, p) => last'.res \in BorrowConflicts
                /\ box_method_mut(1, "X", ok, p) => last'.res \in BorrowConflicts
                /\ box_method_mut_set(1, "X", ok, p) => last'.res \in BorrowConflicts
          /\ ReadRunningOn("X") =>
                /\ box_method_mut(1, "X", ok, p) => last'.res # "entered"
                /\ box_method_mut_set(1, "X", ok, p) => last'.res # "entered"
                /\ box_method(1, "X", TRUE, p) =>
                      last'.res = (IF kind = ArcMutex THEN "UserDataBorrowError"
                                   ELSE "entered")]_vars

\* C36 (amended): while a mutable method is executing on X a nested
\* read-only call on X fails with the borrow conflict and a nested mutable
\* call on X fails with the borrow-mut conflict, except that a nested call
\* of a mutable method whose own closure is running fails with
\* RecursiveMutCallback, which is checked first; while a read-only method is
\* executing on X a nested mutable call fails in the same two ways and a
\* nested read-only call succeeds unless X is Mutex-guarded, where it fails
\* with the borrow conflict.
C36_NestedDispatch ==
    [][\A ok \in BOOLEAN : \A p \in push_userdata_ref("X") :
          /\ MutRunningOn("X") =>
                /\ box_method(1, "X", ok, p) => last'.res = "UserDataBorrowError"
                /\ box_method_mut(1, "X", ok, p) =>
                      last'.res = (IF busy[1]["add"] THEN "RecursiveMutCallback"
                                   ELSE "UserDataBorrowMutError")
                /\ box_method_mut_set(1, "X", ok, p) =>
                      last'.res = (IF busy[1]["set"] THEN "RecursiveMutCallback"
                                   ELSE "UserDataBorrowMutError")
          /\ ReadRunningOn("X") =>
                /\ box_method_mut(1, "X", ok, p) =>
                      last'.res = (IF busy[1]["add"] THEN "RecursiveMutCallback"
                                   ELSE "UserDataBorrowMutError")
                /\ box_method_mut_set(1, "X", ok, p) =>
                      last'.res = (IF busy[1]["set"] THEN "RecursiveMutCallback"
                                   ELSE "UserDataBorrowMutError")
                /\ box_method(1, "X", TRUE, p) =>
                      last'.res = (IF kind = ArcMutex THEN "UserDataBorrowError"
                                   ELSE "entered")]_vars

\* "set" is executing on an RwLock wrapper X and the nested call of "add" on
\* X was refused with the borrow-mut conflict.
C36_Witness ==
    /\ kind = ArcRwLock
    /\ Len(stack[1]) = 1
    /\ Top(1).cb = "set" /\ Top(1).obj = "X"
    /\ last = Result("add", "X", "UserDataBorrowMutError")

\* ------------------------------------------------- two threads, one payload
\* Thread 1 dispatches on X and thread 2 on Z, a clone of the same Arc.
NextThreads ==
    \/ \E t \in Threads : \E f \in ObjectsOf(t) \ {"Y"}, ok \in BOOLEAN : \E p \in Pushed(f) :
          box_method(t, f, ok, p)
    \/ \E t \in Threads : \E f \in ObjectsOf(t) \ {"Y"}, ok \in BOOLEAN : \E p \in Pushed(f) :
          box_method_mut(t, f, ok, p)
    \/ \E t \in Threads : add_read(t)
    \/ \E t \in Threads : add_write(t)
    \/ \E t \in Threads : \E ok \in BOOLEAN : callback_return(t, ok)

SpecThreads == Init /\ [][NextThreads]_vars

\* The activations of threads other than t that hold the lock of payload q.
OtherHolders(t, q, b) == {h \in LockFrames(q, b) : h[1] # t}

\* A Mutex has at most one holder, and an RwLock readers or one writer.
LockHolders ==
    \A q \in Payloads :
       /\ kind = ArcMutex =>
             /\ LockFrames(q, "read") = {}
             /\ Cardinality(LockFrames(q, "write")) <= 1
       /\ kind = ArcRwLock =>
             \/ LockFrames(q, "write") = {}
             \/ /\ LockFrames(q, "read") = {}
                /\ Cardinality(LockFrames(q, "write")) = 1

OverlappingDispatch ==
    \A t \in Threads : \A f \in ObjectsOf(t) \ {"Y"}, ok \in BOOLEAN : \A p \in Pushed(f) :
       /\ (/\ kind = ArcRwLock
           /\ OtherHolders(t, pay(f), "read") # {}
           /\ box_method(t, f, TRUE, p)) => last'.res = "entered"
       /\ (/\ kind = ArcMutex
           /\ OtherHolders(t, pay(f), "write") # {}
           /\ box_method(t, f, ok, p)) => last'.res = "UserDataBorrowError"
       /\ (/\ kind = ArcRwLock
           /\ box_method_mut(t, f, ok, p)
           /\ last'.res = "entered") =>
              /\ LockFrames(pay(f), "read") = {}
              /\ LockFrames(pay(f), "write") = {}

\* C37: of two threads dispatching a read-only method on two userdata that
\* share one payload, the second succeeds while the first is still running
\* when the payload is RwLock-guarded, and fails with the borrow conflict
\* when it is Mutex-guarded, so that a Mutex has at most one holder; a
\* mutable dispatch on the RwLock-guarded payload enters its closure only
\* when no activation holds the lock for reading or writing.
C37_SharedPayloadAcrossThreads == [](LockHolders) /\ [][OverlappingDispatch]_vars

\* Both threads are inside the read-only method, on X and on Z, holding two
\* read locks of the one RwLock.
C37_Witness ==
    /\ kind = ArcRwLock
    /\ Len(stack[1]) = 1 /\ Top(1).cb = "get" /\ Top(1).obj = "X"
    /\ Len(stack[2]) = 1 /\ Top(2).cb = "get" /\ Top(2).obj = "Z"
    /\ pay("X") = pay("Z")
    /\ inner[pay("X")] = 2
    /\ last = Result("get", "Z", "entered")

\* ------------------------------------------------------ panicking closures
NextPanic ==
    \/ \E t \in Threads : \E f \in ObjectsOf(t), ok \in BOOLEAN : \E p \in Pushed(f) :
          box_method(t, f, ok, p)
    \/ \E t \in Threads : \E f \in ObjectsOf(t), ok \in BOOLEAN : \E p \in Pushed(f) :
          box_method_mut(t, f, ok, p)
    \/ \E t \in Threads : add_read(t)
    \/ \E t \in Threads : add_write(t)
    \/ \E t \in Threads : \E ok \in BOOLEAN : callback_return(t, ok)
    \/ \E t \in Threads : callback_panic(t)

SpecPanic == Init /\ [][NextPanic]_vars

\* The activations that hold the lock of payload q.
Holders(q) == LockFrames(q, "read") \cup LockFrames(q, "write")

ConflictOnlyWhileHeld ==
    \A t \in Threads : \A f \in ObjectsOf(t), ok \in BOOLEAN : \A p \in Pushed(f) :
       (/\ kind \in {ArcMutex, ArcRwLock}
        /\ box_method(t, f, ok, p) \/ box_method_mut(t, f, ok, p)
        /\ last'.res \in BorrowConflicts) => Holders(pay(f)) # {}

\* C38: a dispatch on a Mutex-guarded or RwLock-guarded payload fails with
\* a borrow conflict only in states where some activation holds the lock,
\* also after a holder left its closure by a panic.
C38_ConflictOnlyWhileHeld == [][ConflictOnlyWhileHeld]_vars

\* ------------------------------------------ user values of a borrowed object
\* The host borrows X, writes through the RefMut and drops its borrows, the
\* mutable method "add" runs on X, and the user values of X are set and read
\* meanwhile: an inline slot, a slot of the overflow table, a named value and
\* the rejected index 0.
BorrowedIndices == {0, 1, USER_VALUE_MAXSLOT}

NextBorrowedUserValues ==
    \/ \E p \in push_userdata_ref("X") : borrow("X", kind, p)
    \/ \E p \in push_userdata_ref("X") : borrow_mut("X", kind, p)
    \/ drop_Ref("X")
    \/ drop_RefMut("X")
    \/ RefMut_write("X")
    \/ \E ok \in BOOLEAN : \E p \in push_userdata_ref("X") : box_method_mut(1, "X", ok, p)
    \/ add_read(1)
    \/ add_write(1)
    \/ \E ok \in BOOLEAN : callback_return(1, ok)
    \/ \E n \in BorrowedIndices, v \in Values : \E p \in push_userdata_ref("X") :
          set_nth_user_value("X", n, v, p)
    \/ \E n \in BorrowedIndices : \E p \in push_userdata_ref("X") :
          get_nth_user_value("X", n, p)
    \/ \E name \in Names, v \in Values : \E p \in push_userdata_ref("X") :
          set_named_user_value("X", name, v, p)
    \/ \E name \in Names : \E p \in push_userdata_ref("X") :
          get_named_user_value("X", name, p)

SpecBorrowedUserValues == Init /\ [][NextBorrowedUserValues]_vars

\* The borrow state and the value of the payloads.
PayloadState == <<cell, inner, refs, muts, val, applied, stack, busy>>

UserValueOpsIgnoreBorrows ==
    \A p \in push_userdata_ref("X") :
       /\ \A n \in BorrowedIndices, v \in Values :
             set_nth_user_value("X", n, v, p) =>
                /\ UNCHANGED PayloadState
                /\ last'.res = (IF ValidIndex(n) THEN "Ok" ELSE "RuntimeError")
       /\ \A n \in BorrowedIndices :
             get_nth_user_value("X", n, p) =>
                /\ UNCHANGED PayloadState
                /\ last'.res = (IF ValidIndex(n) THEN nth_user_value("X", n)
                                ELSE "RuntimeError")
       /\ \A name \in Names, v \in Values :
             set_named_user_value("X", name, v, p) =>
                /\ UNCHANGED PayloadState
                /\ last'.res = "Ok"
       /\ \A name \in Names :
             get_named_user_value("X", name, p) =>
                /\ UNCHANGED PayloadState
                /\ last'.res = named_user_value("X", name)

PayloadOpsKeepUserValues ==
    (\/ \E p \in push_userdata_ref("X") : borrow("X", kind, p) \/ borrow_mut("X", kind, p)
     \/ drop_Ref("X") \/ drop_RefMut("X") \/ RefMut_write("X")
     \/ \E ok \in BOOLEAN : \E p \in push_userdata_ref("X") : box_method_mut(1, "X", ok, p)
     \/ add_read(1) \/ add_write(1)
     \/ \E ok \in BOOLEAN : callback_return(1, ok)) => uv' = uv

UserValuesApart == UserValueOpsIgnoreBorrows /\ PayloadOpsKeepUserValues

\* C39: on a live object set_nth_user_value, get_nth_user_value,
\* set_named_user_value and get_named_user_value give the result they give on
\* an unborrowed object whatever borrows of the payload are out (never a
\* borrow conflict) and leave the borrow state and the payload as they are;
\* borrow, borrow_mut, a write through the RefMut, the drops and every step of
\* a mutable method leave all stored user values as they are.
C39_UserValuesIndependentOfBorrows == [][UserValuesApart]_vars

\* The host holds a RefMut of X, has written the payload through it, and a
\* user value set meanwhile is stored.
C39_Witness ==
    /\ muts["X"] = 1
    /\ cell["X"] = 0 - 1
    /\ val[pay("X")] = 1
    /\ uv["X"].inline[1] = "a"
    /\ last = Result("set_nth_user_value", "X", "Ok")
====
